---- MODULE Spec2Model ----
(***************************************************************************)
(* cross-org/service: the service-manager dispatcher (lib/service.ts), the *)
(* init-system detector and the five backend managers (systemd, sysvinit / *)
(* docker-init, upstart, launchd, windows), modelled as calls that advance *)
(* from one await to the next over a shared filesystem.                    *)
(***************************************************************************)
EXTENDS Integers, Sequences, FiniteSets, TLC

VARIABLES
  host,     \* ambient OS state: [os, pid1]
  files,    \* the filesystem's regular files: path -> content
  dirs,     \* directories created so far (mkdir / mktempdir)
  tmpSeq,   \* number of temporary directories handed out by mktempdir
  ncalls,   \* number of public calls started so far
  alive,    \* FALSE once exit() has terminated the process
  call      \* per caller: the call in progress (position, locals, effects, result)

vars == <<host, files, dirs, tmpSeq, ncalls, alive, call>>

\* ------------------------------------------------------------------ bounds
MaxCalls == 2

\* ------------------------------------------------------------------ values
Undefined == "undefined"      \* JavaScript undefined (also what a template literal prints for it)
Absent == "<absent>"          \* the key is not present in the options object
NoForce == Undefined          \* forceInitSystem not given

Falsy(v) == v \in {Undefined, Absent, ""}
OrElse(a, b) == IF Falsy(a) THEN b ELSE a

Procs == {1}
Names == {"a", "b"}
UserOpts == {Absent, Undefined, "u"}
ForceIds == {"systemd", "sysvinit", "docker-init", "upstart", "launchd", "windows", "openrc"}

\* ambient inputs of the process
EnvHOME == "/home/u"
EnvUSER == "u"
EnvPATH == "/usr/bin"
Cwd == "/work"
RuntimeDir == "/rt/bin"
DenoExecPath == "/rt/bin/deno"

\* ------------------------------------------------------------------ hosts
\* PID 1's command name as `ps -p 1 -o comm=` prints it, as a sequence of
\* text fragments, so that String.includes is a real substring test.
Pid1Names ==
  { <<"systemd">>, <<"init">>, <<"openrc">>, <<"docker-", "init">>, <<"runit">> }

Includes(hay, needle) ==
  \E i \in 1..(Len(hay) - Len(needle) + 1) :
     SubSeq(hay, i, i + Len(needle) - 1) = needle

\* what stat() can find at a path: a StatResult with isFile or isDirectory
\* set, or nothing there, in which case stat throws
StatKinds == { "file", "directory", "missing" }

Hosts ==
  { [os |-> "darwin", pid1 |-> <<"launchd">>],
    [os |-> "windows", pid1 |-> <<"wininit">>] }
  \cup { [os |-> "linux", pid1 |-> n] : n \in Pid1Names }

\* ------------------------------------------------------------------ paths
\* A path is the sequence of its segments; dirname drops the last, join appends.
dirname(path) == SubSeq(path, 1, Len(path) - 1)
join(dir, leaf) == Append(dir, leaf)

SystemdPathUser(config) == <<config.home, ".config", "systemd", "user", config.name \o ".service">>
SystemdPathSystem(config) == <<"/etc", "systemd", "system", config.name \o ".service">>
SystemdPath(config) == IF config.system THEN SystemdPathSystem(config) ELSE SystemdPathUser(config)

InitScriptPath(config) == <<"/etc", "init.d", config.name>>

UpstartFilePath(config) == <<"/etc", "init", config.name \o ".conf">>

PlistPathUser(config) == <<config.home, "Library", "LaunchAgents", config.name \o ".plist">>
PlistPathSystem(config) == <<"/Library", "LaunchDaemons", config.name \o ".plist">>
PlistPath(config) == IF config.system THEN PlistPathSystem(config) ELSE PlistPathUser(config)

ServiceBatchPath(config) == <<config.home, ".service", config.name \o ".bat">>
ServiceDirectory(config) == <<config.home, ".service">>

\* mktempdir("svcinstall") / mkdtemp("svc-installer"): a fresh directory
TempDir(prefix, n) == <<"/tmp", prefix \o "-" \o ToString(n)>>

\* the path as the string a template literal interpolates
RECURSIVE PathText(_)
PathText(path) ==
  IF Len(path) = 1 THEN path[1] ELSE path[1] \o "/" \o PathText(Tail(path))

\* ------------------------------------------------------------------ text
\* A text is the sequence of its fragments.  A template placeholder is the
\* fragment "{{...}}"; String.replace(string, value) replaces its first
\* occurrence, String.replace(/.../g, value) every occurrence of the input.
IndexOf(text, frag) ==
  IF \E i \in 1..Len(text) : text[i] = frag
  THEN CHOOSE i \in 1..Len(text) : text[i] = frag /\ \A j \in 1..(i - 1) : text[j] # frag
  ELSE 0

\* The replacement string of String.replace is not inserted as it stands:
\* "$$" stands for "$", "$&" for the matched text, "$`" and "$'" for the
\* text before and after the match at position i of text.
RECURSIVE GetSubstitution(_, _, _)
GetSubstitution(value, text, i) ==
  IF value = <<>> THEN <<>>
  ELSE (CASE Head(value) = "$$" -> <<"$">>
          [] Head(value) = "$&" -> <<text[i]>>
          [] Head(value) = "$`" -> SubSeq(text, 1, i - 1)
          [] Head(value) = "$'" -> SubSeq(text, i + 1, Len(text))
          [] OTHER -> <<Head(value)>>)
       \o GetSubstitution(Tail(value), text, i)

replace(text, ph, value) ==
  LET i == IndexOf(text, ph)
  IN IF i = 0 THEN text
     ELSE SubSeq(text, 1, i - 1) \o GetSubstitution(value, text, i)
          \o SubSeq(text, i + 1, Len(text))

\* every match is found in the input, so a substitution is never matched again
RECURSIVE replaceFrom(_, _, _, _)
replaceFrom(text, ph, value, j) ==
  IF j > Len(text) THEN <<>>
  ELSE (IF text[j] = ph THEN GetSubstitution(value, text, j) ELSE <<text[j]>>)
       \o replaceFrom(text, ph, value, j + 1)

replaceAll(text, ph, value) == replaceFrom(text, ph, value, 1)

\* Array.join(sep) over an array of strings
RECURSIVE joinWith(_, _)
joinWith(arr, sep) ==
  IF arr = <<>> THEN <<>>
  ELSE IF Len(arr) = 1 THEN <<arr[1]>>
  ELSE <<arr[1], sep>> \o joinWith(Tail(arr), sep)

\* an optional array option: absent (undefined) or an array
OptList(has, v) == [has |-> has, v |-> v]
List(s) == OptList(TRUE, s)

\* the command line as one string: its words separated by single spaces
CmdText(cmd) == joinWith(cmd, " ")

\* `${x}` of an optional array: "undefined" or the elements joined
OptJoin(opt, sep) == IF opt.has THEN joinWith(opt.v, sep) ELSE <<Undefined>>

\* one environment entry NAME=VALUE is the text <<NAME, "=", VALUE, ...>>
RECURSIVE splitOn(_, _)
splitOn(text, sep) ==
  LET i == IndexOf(text, sep)
  IN IF i = 0 THEN <<text>>
     ELSE <<SubSeq(text, 1, i - 1)>> \o splitOn(SubSeq(text, i + 1, Len(text)), sep)

PartOrUndefined(parts, i) == IF i <= Len(parts) THEN parts[i] ELSE <<Undefined>>

RECURSIVE concatMap(_, _, _)
concatMap(arr, pre, post) ==
  IF arr = <<>> THEN <<>>
  ELSE pre \o arr[1] \o post \o concatMap(Tail(arr), pre, post)

\* ------------------------------------------------------------------ renderers
serviceFileTemplate ==
  << "[Unit]\nDescription=", "{{name}}", " (Deno Service)\n\n[Service]\nExecStart=/bin/sh -c \"",
     "{{command}}", "\"\nRestart=always\nRestartSec=30\nEnvironment=", "{{path}}", "\n",
     "{{extraEnvs}}", "\nWorkingDirectory=", "{{workingDirectory}}", "\n",
     "{{extraServiceContent}}", "\n\n[Install]\nWantedBy=", "{{wantedByTarget}}", "\n" >>

SystemdGenerateConfig(options) ==
  LET envPath == <<"PATH=">> \o
                 (IF options.path.has /\ Len(options.path.v) > 0
                  THEN joinWith(options.path.v, ":") \o <<":", RuntimeDir>>
                  ELSE <<RuntimeDir>>)
      workingDirectory == IF Falsy(options.cwd) THEN Cwd ELSE options.cwd
      c1 == replace(serviceFileTemplate, "{{name}}", <<options.name>>)
      c2 == replace(c1, "{{command}}", CmdText(options.cmd))
      c3 == replace(c2, "{{path}}", envPath)
      c4 == replace(c3, "{{workingDirectory}}", <<workingDirectory>>)
      c5 == IF options.system
            THEN replace(c4, "{{extraServiceContent}}", <<"User=", options.user>>)
            ELSE replace(c4, "{{extraServiceContent}}", <<>>)
      c6 == IF options.system
            THEN replace(c5, "{{wantedByTarget}}", <<"multi-user.target">>)
            ELSE replace(c5, "{{wantedByTarget}}", <<"default.target">>)
  IN IF options.env.has /\ Len(options.env.v) > 0
     THEN replace(c6, "{{extraEnvs}}", concatMap(options.env.v, <<"Environment=">>, <<"\n">>))
     ELSE replace(c6, "{{extraEnvs}}", <<>>)

initScriptTemplate ==
  << "#!/bin/sh\n### BEGIN INIT INFO\n# Provides:          ", "{{name}}",
     "\n# Required-Start:    $remote_fs $syslog\n# Required-Stop:     $remote_fs $syslog\n# Default-Start:     2 3 4 5\n# Default-Stop:      0 1 6\n# Short-Description: ",
     "{{name}}", " (Deno Service)\n# Description:       Start ", "{{name}}",
     " service\n### END INIT INFO\n\nPATH=", "{{path}}", "\n", "{{extraEnvs}}",
     "\n\n# Change the next line to match your installation\nDENO_COMMAND=\"", "{{command}}",
     "\"\n\ncase \"$1\" in\n  start)\n    echo \"Starting ", "{{name}}",
     "...\"\n    $DENO_COMMAND &\n    echo $! > /var/run/", "{{name}}",
     ".pid\n    ;;\n  stop)\n    echo \"Stopping ", "{{name}}",
     "...\"\n    PID=$(cat /var/run/", "{{name}}", ".pid)\n    kill $PID\n    rm /var/run/",
     "{{name}}", ".pid\n    ;;\n  restart)\n    $0 stop\n    $0 start\n    ;;\n  status)\n    if [ -e /var/run/",
     "{{name}}", ".pid ]; then\n      echo \"", "{{name}}", " is running\"\n    else\n      echo \"",
     "{{name}}",
     " is not running\"\n    fi\n    ;;\n  *)\n    echo \"Usage: $0 {start|stop|restart|status}\"\n    exit 1\n    ;;\nesac\n\nexit 0\n" >>

InitGenerateConfig(config) ==
  LET servicePath == IF config.path.has /\ Len(config.path.v) > 0
                     THEN joinWith(config.path.v, ":") \o <<":", RuntimeDir>>
                     ELSE <<RuntimeDir>>
      c1 == replaceAll(initScriptTemplate, "{{name}}", <<config.name>>)
      c2 == replace(c1, "{{command}}", CmdText(config.cmd))
      c3 == replace(c2, "{{path}}", servicePath)
  IN IF config.env.has /\ Len(config.env.v) > 0
     THEN replace(c3, "{{extraEnvs}}", concatMap(config.env.v, <<>>, <<"\n">>))
     ELSE replace(c3, "{{extraEnvs}}", <<>>)

upstartFileTemplate ==
  << "# ", "{{name}}", " (Deno Service)\n\ndescription \"", "{{name}}",
     " Deno Service\"\nauthor \"Service user\"\n\nstart on (filesystem and net-device-up IFACE!=lo)\nstop on runlevel [!2345]\n\nrespawn\nrespawn limit 10 5\n\nenv PATH=",
     "{{path}}", "\n", "{{extraEnvs}}",
     "\n\n# Change the next line to match your service installation\nenv SERVICE_COMMAND=\"",
     "{{command}}", "\"\n\nexec $SERVICE_COMMAND\n" >>

UpstartGenerateConfig(config) ==
  LET defaultPath == IF Falsy(EnvPATH) THEN <<>> ELSE <<EnvPATH>>
      envPath == IF config.path.has
                 THEN defaultPath \o <<":">> \o joinWith(config.path.v, ":")
                 ELSE defaultPath
      c1 == replaceAll(upstartFileTemplate, "{{name}}", <<config.name>>)
      c2 == replace(c1, "{{command}}", CmdText(config.cmd))
      c3 == replace(c2, "{{path}}", envPath)
  IN IF config.env.has /\ Len(config.env.v) > 0
     THEN replace(c3, "{{extraEnvs}}", concatMap(config.env.v, <<"env ">>, <<"\n">>))
     ELSE replace(c3, "{{extraEnvs}}", <<>>)

plistTemplate ==
  << "<?xml version=\"1.0\" encoding=\"UTF-8\"?>\n<!DOCTYPE plist PUBLIC \"-//Apple//DTD PLIST 1.0//EN\" \"http://www.apple.com/DTDs/PropertyList-1.0.dtd\">\n<plist version=\"1.0\">\n  <dict>\n    <key>Label</key>\n    <string>",
     "{{name}}", "</string>\n    <key>ProgramArguments</key>\n    <array>\n", "{{command}}",
     "    </array>\n    <key>EnvironmentVariables</key>\n    <dict>\n      <key>PATH</key>\n      <string>",
     "{{path}}", "</string>\n", "{{extraEnvs}}",
     "    </dict>\n    <key>WorkingDirectory</key>\n    <string>", "{{workingDirectory}}",
     "</string>\n    <key>KeepAlive</key>\n    <true/>\n  </dict>\n</plist>\n" >>

RECURSIVE PlistEnvs(_)
PlistEnvs(envs) ==
  IF envs = <<>> THEN <<>>
  ELSE LET envSplit == splitOn(envs[1], "=")
       IN <<"      <key>">> \o PartOrUndefined(envSplit, 1) \o <<"</key>\n      <string>">>
          \o PartOrUndefined(envSplit, 2) \o <<"</string>\n">> \o PlistEnvs(Tail(envs))

RECURSIVE PlistArgs(_)
PlistArgs(words) ==
  IF words = <<>> THEN <<>>
  ELSE <<"      <string>", words[1], "</string>\n">> \o PlistArgs(Tail(words))

LaunchdGenerateConfig(options) ==
  LET commandArgs == options.cmd
      servicePath == OptJoin(options.path, ":") \o <<":", EnvPATH>>
      workingDirectory == IF Falsy(options.cwd) THEN Cwd ELSE options.cwd
      c1 == replaceAll(plistTemplate, "{{name}}", <<options.name>>)
      c2 == replaceAll(c1, "{{path}}", servicePath)
      c3 == replaceAll(c2, "{{workingDirectory}}", <<workingDirectory>>)
      c4 == replace(c3, "{{command}}", PlistArgs(commandArgs))
  IN IF options.env.has /\ Len(options.env.v) > 0
     THEN replace(c4, "{{extraEnvs}}", PlistEnvs(options.env.v))
     ELSE replace(c4, "{{extraEnvs}}", <<>>)

WindowsGenerateConfig(options) ==
  LET defaultPath == <<"%PATH%;", DenoExecPath, ";", options.home, "\\.deno\\bin">>
      envPath == IF options.path.has
                 THEN defaultPath \o <<";">> \o joinWith(options.path.v, ";")
                 ELSE defaultPath
      workingDirectory == IF Falsy(options.cwd) THEN Cwd ELSE options.cwd
  IN <<"@echo off\n">>
     \o <<"cd \"", workingDirectory, "\"\n">>
     \o <<"set \"PATH=">> \o envPath \o <<"\"\n">>
     \o (IF options.env.has /\ Len(options.env.v) > 0
         THEN concatMap(options.env.v, <<"set \"">>, <<"\"\n">>)
         ELSE <<>>)
     \o <<"deno run -A --unstable https://deno.land/x/windows_service@1.0.11/run.ts --serviceName ",
          options.name, " -- ">> \o CmdText(options.cmd) \o <<"\n">>

\* the registry: the identifiers registered, and the manager class of each
RegistryKeys == {"systemd", "sysvinit", "docker-init", "upstart", "launchd", "windows"}
Registry(k) ==
  CASE k = "systemd" -> "SystemdService"
    [] k \in {"sysvinit", "docker-init"} -> "InitService"
    [] k = "upstart" -> "UpstartService"
    [] k = "launchd" -> "LaunchdService"
    [] k = "windows" -> "WindowsService"

generateConfig(manager, config) ==
  CASE manager = "SystemdService" -> SystemdGenerateConfig(config)
    [] manager = "InitService" -> InitGenerateConfig(config)
    [] manager = "UpstartService" -> UpstartGenerateConfig(config)
    [] manager = "LaunchdService" -> LaunchdGenerateConfig(config)
    [] manager = "WindowsService" -> WindowsGenerateConfig(config)


\* ------------------------------------------------------------------ calls
ExitCodes == {0, 1}

\* what the callers of this model pass for the options the renderers alone read
CallCmd == <<"run", "app.ts">>
CallPath == <<"/extra">>
CallEnv == << <<"K", "=", "V">> >>

InstallOptions(system, name, user) ==
  [system |-> system, name |-> name, cmd |-> CallCmd, user |-> user, home |-> Absent,
   cwd |-> Absent, path |-> List(CallPath), env |-> List(CallEnv)]

\* UninstallServiceOptions has no cmd, user, cwd, path or env key
UninstallOptions(system, name) ==
  [system |-> system, name |-> name, cmd |-> <<Absent>>, user |-> Absent, home |-> Absent,
   cwd |-> Absent, path |-> OptList(FALSE, <<>>), env |-> OptList(FALSE, <<>>)]

prepareConfig(options) ==
  [system |-> options.system,
   name |-> OrElse(options.name, "deno-service"),
   home |-> OrElse(options.home, EnvHOME),
   cmd |-> IF options.cmd = <<Absent>> THEN <<Undefined>> ELSE options.cmd,
   user |-> IF options.user # Absent THEN OrElse(options.user, EnvUSER) ELSE Undefined,
   cwd |-> IF options.cwd # Absent THEN OrElse(options.cwd, Cwd) ELSE Undefined,
   path |-> options.path,
   env |-> options.env]

NoResult == [kind |-> "none"]
NoSteps == [t |-> "null"]
StepList(steps) == [t |-> "list", steps |-> steps]
StepString(text) == [t |-> "string", text |-> text]

\* what ArgsParser answers about a command line: the loose arguments, the
\* values given for each flag (none when the flag is absent), the words
\* after "--", and whether the parser accepted the line at all
Args(ok, loose, help, name, cmd, rest, env, system) ==
  [ok |-> ok, loose |-> loose, help |-> help, name |-> name, cmd |-> cmd, rest |-> rest,
   env |-> env, system |-> system]

\* a call at position pc with nothing done yet; args is the command line of
\* the CLI run that made the call, empty when a program made it
NewCall(pc, op, options, onlyGenerate, force) ==
  [pc |-> pc, op |-> op, options |-> options, onlyGenerate |-> onlyGenerate, force |-> force,
   args |-> Args(TRUE, <<>>, <<>>, <<>>, <<>>, <<>>, <<>>, FALSE),
   config |-> options, initSystem |-> Undefined, content |-> <<>>, tmp |-> <<>>,
   stopCode |-> 0, primary |-> "", log |-> <<>>, result |-> NoResult,
   before |-> [files |-> <<>>, dirs |-> {}],
   stat |-> <<"", "">>,
   prev |-> [ok |-> FALSE, path |-> <<>>, files |-> <<>>]]

\* caller p has no call in progress
IdleCall(p) == NewCall("idle", "none", UninstallOptions(FALSE, "a"), FALSE, NoForce)

\* effects a call has had, in the order they happened
EvSpawn(argv, code) == [k |-> "spawn", argv |-> argv, code |-> code]
EvWrite(path, existed) == [k |-> "writeFile", path |-> path, existed |-> existed]
EvMkdir(path) == [k |-> "mkdir", path |-> path]
EvMktemp(path) == [k |-> "mktempdir", path |-> path]
EvUnlink(path, ok) == [k |-> "unlink", path |-> path, ok |-> ok]
EvConsole(stream) == [k |-> "console", stream |-> stream]
EvExit(code) == [k |-> "exit", code |-> code]
EvMethod(manager, method) == [k |-> "method", manager |-> manager, method |-> method]

Logged(c, ev) == [c EXCEPT !.log = Append(@, ev)]
At(c, pc) == [c EXCEPT !.pc = pc]
Throw(c, msg) == [c EXCEPT !.pc = "done", !.result = [kind |-> "throw", msg |-> msg]]
Return(c, value) == [c EXCEPT !.pc = "done", !.result = [kind |-> "return", value |-> value]]
InstallResult(servicePath, content, steps) ==
  [servicePath |-> servicePath, serviceFileContent |-> content, manualSteps |-> steps]
UninstallResult(servicePath, steps) == [servicePath |-> servicePath, manualSteps |-> steps]

\* the filesystem primitives
exists(path) == path \in DOMAIN files \/ path \in dirs
Prefixes(path) == { SubSeq(path, 1, i) : i \in 1..Len(path) }
WriteFile(path, content) ==
  files' = [q \in DOMAIN files \cup {path} |-> IF q = path THEN content ELSE files[q]]
Unlink(path) == files' = [q \in DOMAIN files \ {path} |-> files[q]]
\* unlink fails when nothing is there, and may fail for a reason of the host's
UnlinkOutcomes(path) == IF path \in DOMAIN files THEN {TRUE, FALSE} ELSE {FALSE}

Set(p, c) == call' = [call EXCEPT ![p] = c]
Pc(p) == call[p].pc

\* ------------------------------------------------------------------ initial states
\* A service file an operator or an earlier run left behind, for name "a".
PreInstalled ==
  LET c == prepareConfig(InstallOptions(TRUE, "a", "u"))
  IN { SystemdPathUser(c), SystemdPathSystem(c), InitScriptPath(c), UpstartFilePath(c),
       PlistPathUser(c), PlistPathSystem(c), ServiceBatchPath(c) }

Init ==
  /\ host \in Hosts
  /\ \E pre \in {{}} \cup { {x} : x \in PreInstalled } :
       files = [q \in pre |-> <<"(left by an earlier install)">>]
  /\ dirs = {}
  /\ tmpSeq = 0
  /\ ncalls = 0
  /\ alive = TRUE
  /\ call = [p \in Procs |-> IdleCall(p)]

\* ------------------------------------------------------------------ dispatcher
\* A caller invokes one of the three exported functions.
CanBegin(p) ==
  /\ alive
  /\ ncalls < MaxCalls
  /\ \A q \in Procs : Pc(q) = "idle"

Begin(p, op, options, onlyGenerate, force) ==
  /\ ncalls' = ncalls + 1
  /\ Set(p, [NewCall("entry", op, options, onlyGenerate, force) EXCEPT
                !.before = [files |-> files, dirs |-> dirs],
                !.prev = call[p].prev])
  /\ UNCHANGED <<host, files, dirs, tmpSeq, alive>>

CallInstallService(p) ==
  /\ CanBegin(p)
  /\ \E system \in BOOLEAN, name \in Names, user \in UserOpts, onlyGenerate \in BOOLEAN,
       force \in ForceIds \cup {NoForce} :
       Begin(p, "install", InstallOptions(system, name, user), onlyGenerate, force)

CallUninstallService(p) ==
  /\ CanBegin(p)
  /\ \E system \in BOOLEAN, name \in Names, force \in ForceIds \cup {NoForce} :
       Begin(p, "uninstall", UninstallOptions(system, name), FALSE, force)

CallGenerateConfig(p) ==
  /\ CanBegin(p)
  /\ \E system \in BOOLEAN, name \in Names, user \in UserOpts, force \in ForceIds \cup {NoForce} :
       Begin(p, "generateConfig", InstallOptions(system, name, user), TRUE, force)

\* what a caller holds after an install that returned having written the
\* file its result names: that path, and the files there were before it
Installed(c) ==
  LET wrote == { c.log[i].path : i \in { j \in DOMAIN c.log : c.log[j].k = "writeFile" } }
  IN IF c.op = "install" /\ c.result.kind = "return" /\ c.result.value.servicePath \in wrote
     THEN [ok |-> TRUE, path |-> c.result.value.servicePath, files |-> c.before.files]
     ELSE [ok |-> FALSE, path |-> <<>>, files |-> <<>>]

\* The caller has taken the settled promise's value or error; the call is over.
Settle(p) ==
  /\ Pc(p) = "done"
  /\ alive
  /\ Set(p, [IdleCall(p) EXCEPT !.prev = Installed(call[p])])
  /\ UNCHANGED <<host, files, dirs, tmpSeq, ncalls, alive>>

\* the forced identifier accepted for a real install as well
EntryForcedInstall(p) ==
  LET c == call[p]
      c1 == [c EXCEPT !.config = prepareConfig(c.options)]
  IN /\ Pc(p) = "entry"
     /\ IF ~Falsy(c.force)
        THEN Set(p, At([c1 EXCEPT !.initSystem = c.force], "lookup"))
        ELSE IF host.os = "darwin"
        THEN Set(p, At([c1 EXCEPT !.initSystem = "launchd"], "lookup"))
        ELSE IF host.os = "windows"
        THEN Set(p, At([c1 EXCEPT !.initSystem = "windows"], "lookup"))
        ELSE Set(p, At(c1, "detect_ps"))
     /\ UNCHANGED <<host, files, dirs, tmpSeq, ncalls, alive>>

\* installService / uninstallService / generateConfig up to the first await
Entry(p) ==
  LET c == call[p]
      c1 == [c EXCEPT !.config = prepareConfig(c.options)]
  IN /\ Pc(p) = "entry"
     /\ IF c.op = "install" /\ ~Falsy(c.force) /\ ~c.onlyGenerate
        THEN Set(p, Throw(c, "Manually selecting an init system is not possible while installing."))
        ELSE IF ~Falsy(c.force)
        THEN Set(p, At([c1 EXCEPT !.initSystem = c.force], "lookup"))
        ELSE IF host.os = "darwin"
        THEN Set(p, At([c1 EXCEPT !.initSystem = "launchd"], "lookup"))
        ELSE IF host.os = "windows"
        THEN Set(p, At([c1 EXCEPT !.initSystem = "windows"], "lookup"))
        ELSE Set(p, At(c1, "detect_ps"))
     /\ UNCHANGED <<host, files, dirs, tmpSeq, ncalls, alive>>

\* a PID 1 that matches no pattern taken for sysvinit
DetectPsDefaultsToSysvinit(p) ==
  LET c == Logged(call[p], EvSpawn(<<"ps", "-p", "1", "-o", "comm=">>, 0))
      stdout == host.pid1
  IN /\ Pc(p) = "detect_ps"
     /\ IF Includes(stdout, <<"systemd">>)
        THEN Set(p, At([c EXCEPT !.initSystem = "systemd"], "lookup"))
        ELSE IF Includes(stdout, <<"init">>)
        THEN Set(p, At(c, "detect_stat"))
        ELSE IF Includes(stdout, <<"openrc">>)
        THEN Set(p, At([c EXCEPT !.initSystem = "openrc"], "lookup"))
        ELSE Set(p, At([c EXCEPT !.initSystem = "sysvinit"], "lookup"))
     /\ UNCHANGED <<host, files, dirs, tmpSeq, ncalls, alive>>

\* detectInitSystem: spawn ps and match PID 1's command name
DetectPs(p) ==
  LET c == Logged(call[p], EvSpawn(<<"ps", "-p", "1", "-o", "comm=">>, 0))
      stdout == host.pid1
  IN /\ Pc(p) = "detect_ps"
     /\ IF Includes(stdout, <<"systemd">>)
        THEN Set(p, At([c EXCEPT !.initSystem = "systemd"], "lookup"))
        ELSE IF Includes(stdout, <<"init">>)
        THEN Set(p, At(c, "detect_stat"))
        ELSE IF Includes(stdout, <<"openrc">>)
        THEN Set(p, At([c EXCEPT !.initSystem = "openrc"], "lookup"))
        ELSE IF Includes(stdout, <<"docker-", "init">>)
        THEN Set(p, At([c EXCEPT !.initSystem = "dockerinit"], "lookup"))
        ELSE Set(p, Throw(c, "Unsupported init system."))
     /\ UNCHANGED <<host, files, dirs, tmpSeq, ncalls, alive>>

\* what stat("/etc/init") can find: a directory when the model's filesystem
\* holds a job file below it, anything otherwise
EtcInitKinds ==
  IF \E q \in DOMAIN files : Len(q) > 2 /\ SubSeq(q, 1, 2) = <<"/etc", "init">>
  THEN {"directory"}
  ELSE StatKinds

\* either probe enough for Upstart: || where the code has &&
DetectStatEither(p) ==
  LET c == call[p]
  IN /\ Pc(p) = "detect_stat"
     /\ \E statInitCtl \in StatKinds, statInit \in EtcInitKinds \cup {"not run"} :
          /\ (statInitCtl = "missing") <=> (statInit = "not run")
          /\ LET c1 == [c EXCEPT !.stat = <<statInitCtl, statInit>>]
             IN IF statInitCtl = "missing" \/ statInit = "missing"
                THEN Set(p, At([c1 EXCEPT !.initSystem = "sysvinit"], "lookup"))
                ELSE IF statInitCtl = "file" \/ statInit = "directory"
                THEN Set(p, At([c1 EXCEPT !.initSystem = "upstart"], "lookup"))
                ELSE Set(p, At([c1 EXCEPT !.initSystem = "sysvinit"], "lookup"))
     /\ UNCHANGED <<host, files, dirs, tmpSeq, ncalls, alive>>

\* detectInitSystem: the two stat() probes for Upstart; a stat that finds
\* nothing throws, the second stat is then not run, and the catch answers
DetectStat(p) ==
  LET c == call[p]
  IN /\ Pc(p) = "detect_stat"
     /\ \E statInitCtl \in StatKinds, statInit \in EtcInitKinds \cup {"not run"} :
          /\ (statInitCtl = "missing") <=> (statInit = "not run")
          /\ LET c1 == [c EXCEPT !.stat = <<statInitCtl, statInit>>]
             IN IF statInitCtl = "missing" \/ statInit = "missing"
                THEN Set(p, At([c1 EXCEPT !.initSystem = "sysvinit"], "lookup"))
                ELSE IF statInitCtl = "file" /\ statInit = "directory"
                THEN Set(p, At([c1 EXCEPT !.initSystem = "upstart"], "lookup"))
                ELSE Set(p, At([c1 EXCEPT !.initSystem = "sysvinit"], "lookup"))
     /\ UNCHANGED <<host, files, dirs, tmpSeq, ncalls, alive>>

\* first position inside the manager's method
FirstPc(manager, op) ==
  CASE op = "generateConfig" -> "generate"
    [] manager = "SystemdService" /\ op = "install" -> "sd_exists_user"
    [] manager = "SystemdService" /\ op = "uninstall" -> "sd_un_exists"
    [] manager = "InitService" /\ op = "install" -> "in_exists"
    [] manager = "InitService" /\ op = "uninstall" -> "in_un_exists"
    [] manager = "UpstartService" /\ op = "install" -> "up_exists"
    [] manager = "UpstartService" /\ op = "uninstall" -> "up_un_exists"
    [] manager = "LaunchdService" /\ op = "install" -> "ld_exists_user"
    [] manager = "LaunchdService" /\ op = "uninstall" -> "ld_un_exists"
    [] manager = "WindowsService" /\ op = "install" -> "wn_exists"
    [] manager = "WindowsService" /\ op = "uninstall" -> "wn_un_exists"

\* an identifier the registry does not know handled by InitService
LookupFallsBack(p) ==
  LET c == [call[p] EXCEPT !.stat = <<"", "">>]
      manager == IF c.initSystem \in RegistryKeys THEN Registry(c.initSystem) ELSE "InitService"
  IN /\ Pc(p) = "lookup"
     /\ Set(p, At(Logged(c, EvMethod(manager, c.op)), FirstPc(manager, c.op)))
     /\ UNCHANGED <<host, files, dirs, tmpSeq, ncalls, alive>>

\* ServiceManager.installService / generateConfig / uninstallService
Lookup(p) ==
  LET c == [call[p] EXCEPT !.stat = <<"", "">>]
  IN /\ Pc(p) = "lookup"
     /\ IF c.initSystem \notin RegistryKeys
        THEN Set(p, Throw(c, "Unsupported init system"))
        ELSE LET manager == Registry(c.initSystem)
             IN Set(p, At(Logged(c, EvMethod(manager, c.op)), FirstPc(manager, c.op)))
     /\ UNCHANGED <<host, files, dirs, tmpSeq, ncalls, alive>>

Manager(p) == Registry(call[p].initSystem)

\* manager.generateConfig(options), reached through the exported generateConfig
Generate(p) ==
  LET c == call[p]
  IN /\ Pc(p) = "generate"
     /\ Set(p, Return(c, generateConfig(Manager(p), c.config)))
     /\ UNCHANGED <<host, files, dirs, tmpSeq, ncalls, alive>>


\* ------------------------------------------------------------------ SystemdService
Same == UNCHANGED <<host, files, dirs, tmpSeq, ncalls, alive>>
SameButFiles == UNCHANGED <<host, dirs, tmpSeq, ncalls, alive>>
SameButDirs == UNCHANGED <<host, files, tmpSeq, ncalls, alive>>

\* a shell command of a manual step
CmdCopy(src, dst) == "sudo cp " \o PathText(src) \o " " \o PathText(dst)
CmdPath(sh, path) == sh \o " " \o PathText(path)
Step(text, command) == [text |-> text, command |-> command]
TextStep(text) == [text |-> text]

Systemctl(system, verb) == <<"systemctl", IF system THEN "" ELSE "--user">> \o verb

\* refused when the user-mode unit directory is there, whatever it holds
SdExistsUserDirectory(p) ==
  LET c == call[p]
  IN /\ Pc(p) = "sd_exists_user"
     /\ IF exists(dirname(SystemdPathUser(c.config)))
        THEN Set(p, Throw(c, "already exists"))
        ELSE Set(p, At(c, "sd_exists_system"))
     /\ Same

SdExistsUser(p) ==
  LET c == call[p]
  IN /\ Pc(p) = "sd_exists_user"
     /\ IF exists(SystemdPathUser(c.config))
        THEN Set(p, Throw(c, "already exists"))
        ELSE Set(p, At(c, "sd_exists_system"))
     /\ Same

\* the check of the system-mode path left out
SdExistsSystemSkipped(p) ==
  /\ Pc(p) = "sd_exists_system"
  /\ Set(p, At(call[p], "sd_linger"))
  /\ Same

SdExistsSystem(p) ==
  LET c == call[p]
  IN /\ Pc(p) = "sd_exists_system"
     /\ IF exists(SystemdPathSystem(c.config))
        THEN Set(p, Throw(c, "already exists"))
        ELSE Set(p, At(c, "sd_linger"))
     /\ Same

\* the exit code tested the wrong way round: a zero exit raises
SdLingerInverted(p) ==
  LET c == call[p]
  IN /\ Pc(p) = "sd_linger"
     /\ IF ~c.config.system /\ ~c.onlyGenerate
        THEN IF Falsy(c.config.user)
             THEN Set(p, Throw(c, "Username not found"))
             ELSE \E code \in ExitCodes :
                    LET c1 == Logged(c, EvSpawn(<<"loginctl", "enable-linger", c.config.user>>, code))
                    IN IF code = 0
                       THEN Set(p, Throw(c1, "Failed to enable linger for user mode."))
                       ELSE Set(p, At(c1, "sd_generate"))
        ELSE Set(p, At(c, "sd_generate"))
     /\ Same

\* linger enabled whenever the mode is user mode, generating or not
SdLingerWhenGenerating(p) ==
  LET c == call[p]
  IN /\ Pc(p) = "sd_linger"
     /\ IF ~c.config.system
        THEN \E code \in ExitCodes :
               LET c1 == Logged(c, EvSpawn(<<"loginctl", "enable-linger", c.config.user>>, code))
               IN IF code # 0
                  THEN Set(p, Throw(c1, "Failed to enable linger for user mode."))
                  ELSE Set(p, At(c1, "sd_generate"))
        ELSE Set(p, At(c, "sd_generate"))
     /\ Same

\* enable linger with loginctl when installing in user mode
SdLinger(p) ==
  LET c == call[p]
  IN /\ Pc(p) = "sd_linger"
     /\ IF ~c.config.system /\ ~c.onlyGenerate
        THEN IF Falsy(c.config.user)
             THEN Set(p, Throw(c, "Username not found"))
             ELSE \E code \in ExitCodes :
                    LET c1 == Logged(c, EvSpawn(<<"loginctl", "enable-linger", c.config.user>>, code))
                    IN IF code # 0
                       THEN Set(p, Throw(c1, "Failed to enable linger for user mode."))
                       ELSE Set(p, At(c1, "sd_generate"))
        ELSE Set(p, At(c, "sd_generate"))
     /\ Same

SdGenerate(p) ==
  LET c == call[p]
      content == SystemdGenerateConfig(c.config)
      c1 == [c EXCEPT !.content = content]
  IN /\ Pc(p) = "sd_generate"
     /\ IF c.onlyGenerate
        THEN Set(p, Return(c1, InstallResult(SystemdPath(c.config), content, NoSteps)))
        ELSE IF c.config.system
        THEN Set(p, At(c1, "sd_mktempdir"))
        ELSE Set(p, At(c1, "sd_mkdir"))
     /\ Same

SdMktempdir(p) ==
  LET c == call[p]
      tempFilePath == TempDir("svcinstall", tmpSeq)
  IN /\ Pc(p) = "sd_mktempdir"
     /\ tmpSeq' = tmpSeq + 1
     /\ dirs' = dirs \cup {tempFilePath}
     /\ Set(p, At(Logged([c EXCEPT !.tmp = tempFilePath], EvMktemp(tempFilePath)), "sd_write_temp"))
     /\ UNCHANGED <<host, files, ncalls, alive>>

SdManualSteps(c, tempFileFullPath) ==
  << Step("The systemd configuration has been saved to a temporary file. Copy this file to the correct location using the following command:",
          CmdCopy(tempFileFullPath, SystemdPath(c.config))),
     Step("Reload the systemd configuration:", "sudo systemctl daemon-reload"),
     Step("Enable the service:", "sudo systemctl enable " \o c.config.name),
     Step("Start the service now:", "sudo systemctl start " \o c.config.name) >>

SdWriteTemp(p) ==
  LET c == call[p]
      tempFilePath == c.tmp
      tempFileFullPath == join(tempFilePath, "cfg")
      c1 == Logged(c, EvWrite(tempFileFullPath, tempFileFullPath \in DOMAIN files))
  IN /\ Pc(p) = "sd_write_temp"
     /\ WriteFile(tempFileFullPath, c.content)
     /\ Set(p, Return(c1, InstallResult(tempFilePath, c.content,
                                        StepList(SdManualSteps(c, tempFileFullPath)))))
     /\ SameButFiles

SdMkdir(p) ==
  LET c == call[p]
      serviceDir == dirname(SystemdPath(c.config))
  IN /\ Pc(p) = "sd_mkdir"
     /\ dirs' = dirs \cup Prefixes(serviceDir)
     /\ Set(p, At(Logged(c, EvMkdir(serviceDir)), "sd_write"))
     /\ SameButDirs

\* the write as an exclusive creation: refused when a file is at the path
SdWriteExclusive(p) ==
  LET c == call[p]
      servicePath == SystemdPath(c.config)
  IN /\ Pc(p) = "sd_write"
     /\ IF servicePath \in DOMAIN files
        THEN UNCHANGED files /\ Set(p, Throw(c, "already exists"))
        ELSE /\ WriteFile(servicePath, c.content)
             /\ Set(p, At(Logged(c, EvWrite(servicePath, FALSE)), "sd_reload"))
     /\ SameButFiles

SdWrite(p) ==
  LET c == call[p]
      servicePath == SystemdPath(c.config)
  IN /\ Pc(p) = "sd_write"
     /\ WriteFile(servicePath, c.content)
     /\ Set(p, At(Logged(c, EvWrite(servicePath, servicePath \in DOMAIN files)), "sd_reload"))
     /\ SameButFiles

SdInstalled(c) == Return(c, InstallResult(SystemdPath(c.config), c.content, NoSteps))

\* the step's exit code ignored: the next step runs whatever it was
SdStepUngated(p, pc, verb, failure, next) ==
  LET c == call[p]
  IN /\ Pc(p) = pc
     /\ \E code \in ExitCodes :
          LET c1 == Logged(c, EvSpawn(Systemctl(c.config.system, verb), code))
          IN IF next = "done" THEN Set(p, SdInstalled(c1)) ELSE Set(p, At(c1, next))
     /\ Same

\* the failure raised at once, with no rollback
SdStepNoRollback(p, pc, verb, failure, next) ==
  LET c == call[p]
  IN /\ Pc(p) = pc
     /\ \E code \in ExitCodes :
          LET c1 == Logged(c, EvSpawn(Systemctl(c.config.system, verb), code))
          IN IF code # 0
             THEN Set(p, Throw([c1 EXCEPT !.primary = failure], failure))
             ELSE IF next = "done" THEN Set(p, SdInstalled(c1)) ELSE Set(p, At(c1, next))
     /\ Same

\* one systemctl step of the user-mode install: on a non-zero exit, roll back
SdStep(p, pc, verb, failure, next) ==
  LET c == call[p]
  IN /\ Pc(p) = pc
     /\ \E code \in ExitCodes :
          LET c1 == Logged(c, EvSpawn(Systemctl(c.config.system, verb), code))
          IN IF code # 0
             THEN Set(p, At([c1 EXCEPT !.primary = failure], "sd_rollback_unlink"))
             ELSE IF next = "done" THEN Set(p, SdInstalled(c1)) ELSE Set(p, At(c1, next))
     /\ Same

SdReload(p) ==
  SdStep(p, "sd_reload", <<"daemon-reload">>, "Failed to reload daemon, rolled back any changes.", "sd_enable")

SdEnable(p) ==
  SdStep(p, "sd_enable", <<"enable", call[p].config.name>>, "Failed to enable service, rolled back any changes.", "sd_start")

\* the exit code of systemctl start not looked at: the install returns
SdStartUnchecked(p) ==
  LET c == call[p]
  IN /\ Pc(p) = "sd_start"
     /\ \E code \in ExitCodes :
          Set(p, SdInstalled(Logged(c, EvSpawn(Systemctl(c.config.system, <<"start", c.config.name>>), code))))
     /\ Same

SdStart(p) ==
  SdStep(p, "sd_start", <<"start", call[p].config.name>>, "Failed to start service, rolled back any changes.", "done")

\* what install raises once rollback has returned normally
SdAfterRollback(c) == Throw(c, c.primary)
\* what install raises when rollback itself throws: rollback's error propagates
SdRollbackFailed(c) == Throw(c, "Failed to rollback changes")

SdRollbackUnlink(p) ==
  LET c == call[p]
      servicePath == SystemdPath(c.config)
  IN /\ Pc(p) = "sd_rollback_unlink"
     /\ \E ok \in UnlinkOutcomes(servicePath) :
          LET c1 == Logged(c, EvUnlink(servicePath, ok))
          IN IF ok
             THEN Unlink(servicePath) /\ Set(p, At(c1, "sd_rollback_reload"))
             ELSE UNCHANGED files /\ Set(p, SdRollbackFailed(c1))
     /\ SameButFiles

SdRollbackReload(p) ==
  LET c == call[p]
  IN /\ Pc(p) = "sd_rollback_reload"
     /\ \E code \in ExitCodes :
          LET c1 == Logged(c, EvSpawn(Systemctl(c.config.system, <<"daemon-reload">>), code))
          IN IF code # 0
             THEN Set(p, SdRollbackFailed(c1))
             ELSE Set(p, SdAfterRollback(c1))
     /\ Same

\* the unit removed before the service is stopped
SdUnManualStepsRemoveFirst(c) ==
  << Step("Please run the following command to remove the service:",
          CmdPath("sudo rm", SystemdPathSystem(c.config))),
     Step("Please run this command to stop the service:", "sudo systemctl stop " \o c.config.name),
     Step("And this command to reload the systemctl daemon:", "sudo systemctl daemon-reload") >>

SdUnManualSteps(c) ==
  << Step("Please run this command to stop the service:", "sudo systemctl stop " \o c.config.name),
     Step("Please run the following command to remove the service:",
          CmdPath("sudo rm", SystemdPathSystem(c.config))),
     Step("And this command to reload the systemctl daemon:", "sudo systemctl daemon-reload") >>

SdUnExists(p) ==
  LET c == call[p]
      servicePath == SystemdPath(c.config)
  IN /\ Pc(p) = "sd_un_exists"
     /\ IF ~exists(servicePath)
        THEN Set(p, Throw(c, "does not exist"))
        ELSE IF c.config.system
        THEN Set(p, Return(c, UninstallResult(servicePath, StepList(SdUnManualSteps(c)))))
        ELSE Set(p, At(c, "sd_un_stop"))
     /\ Same

SdUnStop(p) ==
  LET c == call[p]
  IN /\ Pc(p) = "sd_un_stop"
     /\ \E code \in ExitCodes :
          Set(p, At(Logged([c EXCEPT !.stopCode = code],
                           EvSpawn(<<"systemctl", "--user", "stop", c.config.name>>, code)),
                    "sd_un_unlink"))
     /\ Same

\* the unlink left out: stop, then reload, the unit file kept
SdUnUnlinkSkipped(p) ==
  /\ Pc(p) = "sd_un_unlink"
  /\ Set(p, At(call[p], "sd_un_reload"))
  /\ Same

SdUnUnlink(p) ==
  LET c == call[p]
      servicePath == SystemdPath(c.config)
  IN /\ Pc(p) = "sd_un_unlink"
     /\ \E ok \in UnlinkOutcomes(servicePath) :
          LET c1 == Logged(c, EvUnlink(servicePath, ok))
          IN IF ok
             THEN Unlink(servicePath) /\ Set(p, At(c1, "sd_un_reload"))
             ELSE UNCHANGED files /\ Set(p, Throw(c1, "Failed to uninstall service"))
     /\ SameButFiles

SdUnReload(p) ==
  LET c == call[p]
  IN /\ Pc(p) = "sd_un_reload"
     /\ \E code \in ExitCodes :
          LET c1 == Logged(c, EvSpawn(<<"systemctl", "--user", "daemon-reload">>, code))
          IN IF ~(c.stopCode = 0 /\ code = 0)
             THEN Set(p, Throw(c1, "Failed to uninstall service"))
             ELSE Set(p, Return(c1, UninstallResult(SystemdPath(c.config), StepList(<<>>))))
     /\ Same

\* ------------------------------------------------------------------ InitService
InExists(p) ==
  LET c == call[p]
  IN /\ Pc(p) = "in_exists"
     /\ IF exists(InitScriptPath(c.config))
        THEN Set(p, Throw(c, "already exists"))
        ELSE Set(p, At(c, "in_generate"))
     /\ Same

InGenerate(p) ==
  LET c == call[p]
      initScriptContent == InitGenerateConfig(c.config)
      c1 == [c EXCEPT !.content = initScriptContent]
  IN /\ Pc(p) = "in_generate"
     /\ IF c.onlyGenerate
        THEN Set(p, Return(c1, InstallResult(InitScriptPath(c.config), initScriptContent, NoSteps)))
        ELSE Set(p, At(c1, "in_mktempdir"))
     /\ Same

InMktempdir(p) ==
  LET c == call[p]
      tempFilePathDir == TempDir("svcinstall", tmpSeq)
  IN /\ Pc(p) = "in_mktempdir"
     /\ tmpSeq' = tmpSeq + 1
     /\ dirs' = dirs \cup {tempFilePathDir}
     /\ Set(p, At(Logged([c EXCEPT !.tmp = tempFilePathDir], EvMktemp(tempFilePathDir)), "in_write_temp"))
     /\ UNCHANGED <<host, files, ncalls, alive>>

\* the script made executable before it is copied into place
InManualStepsChmodFirst(c, tempFilePath) ==
  << TextStep("The service installer does not have (and should not have) root permissions, so the next steps have to be carried out manually."),
     Step("Step 2: Make the script executable:", CmdPath("sudo chmod +x", InitScriptPath(c.config))),
     Step("Step 1: The init script has been saved to a temporary file, copy this file to the correct location using the following command:",
          CmdCopy(tempFilePath, InitScriptPath(c.config))),
     Step("Step 3: Enable the service to start at boot:", "sudo update-rc.d " \o c.config.name \o " defaults"),
     Step("Step 4: Start the service now:", "sudo service " \o c.config.name \o " start") >>

InManualSteps(c, tempFilePath) ==
  << TextStep("The service installer does not have (and should not have) root permissions, so the next steps have to be carried out manually."),
     Step("Step 1: The init script has been saved to a temporary file, copy this file to the correct location using the following command:",
          CmdCopy(tempFilePath, InitScriptPath(c.config))),
     Step("Step 2: Make the script executable:", CmdPath("sudo chmod +x", InitScriptPath(c.config))),
     Step("Step 3: Enable the service to start at boot:", "sudo update-rc.d " \o c.config.name \o " defaults"),
     Step("Step 4: Start the service now:", "sudo service " \o c.config.name \o " start") >>

InWriteTemp(p) ==
  LET c == call[p]
      tempFilePath == join(c.tmp, "svc-init")
      c1 == Logged(c, EvWrite(tempFilePath, tempFilePath \in DOMAIN files))
  IN /\ Pc(p) = "in_write_temp"
     /\ WriteFile(tempFilePath, c.content)
     /\ Set(p, Return(c1, InstallResult(tempFilePath, c.content,
                                        StepList(InManualSteps(c, tempFilePath)))))
     /\ SameButFiles

InUnManualSteps(c) ==
  << TextStep("The uninstaller does not have (and should not have) root permissions, so the next steps have to be carried out manually."),
     Step("Step 1: Stop the service (if it's running):", "sudo service " \o c.config.name \o " stop"),
     Step("Step 2: Disable the service from starting at boot:", "sudo update-rc.d -f " \o c.config.name \o " remove"),
     Step("Step 3: Remove the init script:", CmdPath("sudo rm", InitScriptPath(c.config))) >>

InUnExists(p) ==
  LET c == call[p]
  IN /\ Pc(p) = "in_un_exists"
     /\ IF ~exists(InitScriptPath(c.config))
        THEN Set(p, Throw(c, "does not exist"))
        ELSE Set(p, Return(c, UninstallResult(InitScriptPath(c.config), StepList(InUnManualSteps(c)))))
     /\ Same

InitStep(p) ==
  \/ InExists(p) \/ InGenerate(p) \/ InMktempdir(p) \/ InWriteTemp(p) \/ InUnExists(p)

\* ------------------------------------------------------------------ UpstartService
\* console.error(...) followed by exit(1): the process ends, nothing returns
Exit(c, code) ==
  [Logged(Logged(c, EvConsole("error")), EvExit(code)) EXCEPT
     !.pc = "done", !.result = [kind |-> "exit", code |-> code]]

RECURSIVE ConsoleLog(_, _)
ConsoleLog(c, n) == IF n = 0 THEN c ELSE ConsoleLog(Logged(c, EvConsole("log")), n - 1)

ReturnUndefined(c) == [c EXCEPT !.pc = "done", !.result = [kind |-> "return undefined"]]

UpExists(p) ==
  LET c == call[p]
      upstartFileContent == UpstartGenerateConfig(c.config)
      c1 == [c EXCEPT !.content = upstartFileContent]
  IN /\ Pc(p) = "up_exists"
     /\ IF exists(UpstartFilePath(c.config))
        THEN Set(p, Exit(c, 1)) /\ alive' = FALSE
        ELSE /\ alive' = alive
             /\ IF c.onlyGenerate
                THEN Set(p, ReturnUndefined(ConsoleLog(c1, 4)))
                ELSE Set(p, At(c1, "up_mkdtemp"))
     /\ UNCHANGED <<host, files, dirs, tmpSeq, ncalls>>

UpMkdtemp(p) ==
  LET c == call[p]
      tempFileDir == TempDir("svc-installer", tmpSeq)
  IN /\ Pc(p) = "up_mkdtemp"
     /\ tmpSeq' = tmpSeq + 1
     /\ dirs' = dirs \cup {tempFileDir}
     /\ Set(p, At(Logged([c EXCEPT !.tmp = tempFileDir], EvMktemp(tempFileDir)), "up_write_temp"))
     /\ UNCHANGED <<host, files, ncalls, alive>>

UpWriteTemp(p) ==
  LET c == call[p]
      tempFilePath == join(c.tmp, "svc-upstart")
      c1 == Logged(c, EvWrite(tempFilePath, tempFilePath \in DOMAIN files))
  IN /\ Pc(p) = "up_write_temp"
     /\ WriteFile(tempFilePath, c.content)
     /\ Set(p, ReturnUndefined(ConsoleLog(c1, 5)))
     /\ SameButFiles

UpUnExists(p) ==
  LET c == call[p]
  IN /\ Pc(p) = "up_un_exists"
     /\ IF ~exists(UpstartFilePath(c.config))
        THEN Set(p, Exit(c, 1)) /\ alive' = FALSE
        ELSE Set(p, At(c, "up_un_unlink")) /\ alive' = alive
     /\ UNCHANGED <<host, files, dirs, tmpSeq, ncalls>>

UpUnUnlink(p) ==
  LET c == call[p]
      upstartFilePath == UpstartFilePath(c.config)
  IN /\ Pc(p) = "up_un_unlink"
     /\ \E ok \in UnlinkOutcomes(upstartFilePath) :
          LET c1 == Logged(c, EvUnlink(upstartFilePath, ok))
          IN IF ok
             THEN Unlink(upstartFilePath) /\ Set(p, ReturnUndefined(ConsoleLog(c1, 3)))
             ELSE UNCHANGED files /\ Set(p, ReturnUndefined(Logged(c1, EvConsole("error"))))
     /\ SameButFiles

UpstartStep(p) ==
  \/ UpExists(p) \/ UpMkdtemp(p) \/ UpWriteTemp(p) \/ UpUnExists(p) \/ UpUnUnlink(p)

\* ------------------------------------------------------------------ LaunchdService
LdExistsUser(p) ==
  LET c == call[p]
  IN /\ Pc(p) = "ld_exists_user"
     /\ IF exists(PlistPathUser(c.config))
        THEN Set(p, Throw(c, "already exists"))
        ELSE Set(p, At(c, "ld_exists_system"))
     /\ Same

LdExistsSystem(p) ==
  LET c == call[p]
      plistContent == LaunchdGenerateConfig(c.config)
      c1 == [c EXCEPT !.content = plistContent]
  IN /\ Pc(p) = "ld_exists_system"
     /\ IF exists(PlistPathSystem(c.config))
        THEN Set(p, Throw(c, "already exists"))
        ELSE IF c.onlyGenerate
        THEN Set(p, Return(c1, InstallResult(PlistPath(c.config), plistContent, NoSteps)))
        ELSE Set(p, At(c1, "ld_mkdir"))
     /\ Same

LdMkdir(p) ==
  LET c == call[p]
      plistDir == dirname(PlistPath(c.config))
  IN /\ Pc(p) = "ld_mkdir"
     /\ dirs' = dirs \cup Prefixes(plistDir)
     /\ Set(p, At(Logged(c, EvMkdir(plistDir)), "ld_write"))
     /\ SameButDirs

\* manualSteps is one string here: a sentence directly followed by a command
LdManualSteps(c, verb, note) ==
  IF c.config.system
  THEN "Please run the following command as root to " \o verb \o " the service" \o note \o ":"
       \o CmdPath("sudo launchctl " \o verb, PlistPath(c.config))
  ELSE "Please run the following command to " \o verb \o " the service" \o note \o ":"
       \o CmdPath("launchctl " \o verb, PlistPath(c.config))

LdWrite(p) ==
  LET c == call[p]
      plistPath == PlistPath(c.config)
      c1 == Logged(c, EvWrite(plistPath, plistPath \in DOMAIN files))
  IN /\ Pc(p) = "ld_write"
     /\ WriteFile(plistPath, c.content)
     /\ Set(p, Return(c1, InstallResult(plistPath, c.content, StepString(LdManualSteps(c, "load", "")))))
     /\ SameButFiles

LdUnExists(p) ==
  LET c == call[p]
  IN /\ Pc(p) = "ld_un_exists"
     /\ IF ~exists(PlistPath(c.config))
        THEN Set(p, Throw(c, "does not exist"))
        ELSE Set(p, At(c, "ld_un_unlink"))
     /\ Same

LdUnUnlink(p) ==
  LET c == call[p]
      plistPath == PlistPath(c.config)
  IN /\ Pc(p) = "ld_un_unlink"
     /\ \E ok \in UnlinkOutcomes(plistPath) :
          LET c1 == Logged(c, EvUnlink(plistPath, ok))
          IN IF ok
             THEN /\ Unlink(plistPath)
                  /\ Set(p, Return(c1, UninstallResult(plistPath, StepString(LdManualSteps(c, "unload", " (if it's running)")))))
             ELSE UNCHANGED files /\ Set(p, Throw(c1, "Failed to uninstall service"))
     /\ SameButFiles

LaunchdStep(p) ==
  \/ LdExistsUser(p) \/ LdExistsSystem(p) \/ LdMkdir(p) \/ LdWrite(p)
  \/ LdUnExists(p) \/ LdUnUnlink(p)

\* ------------------------------------------------------------------ WindowsService
ScCreateArgs(config) ==
  "create " \o config.name \o " binPath=\"cmd.exe /C " \o PathText(ServiceBatchPath(config))
  \o "\" start= auto DisplayName= \"" \o config.name \o "\" obj= LocalSystem"
ScDeleteArgs(config) == "delete " \o config.name
Elevated(scArgs) ==
  <<"powershell.exe", "-Command", "Start-Process", "sc.exe", "-ArgumentList",
    "'" \o scArgs \o "'", "-Verb", "RunAs">>

WnExists(p) ==
  LET c == call[p]
  IN /\ Pc(p) = "wn_exists"
     /\ IF exists(ServiceBatchPath(c.config))
        THEN Set(p, Throw(c, "already exists"))
        ELSE Set(p, At(c, "wn_generate"))
     /\ Same

WnGenerate(p) ==
  LET c == call[p]
      batchFileContent == WindowsGenerateConfig(c.config)
      c1 == [c EXCEPT !.content = batchFileContent]
  IN /\ Pc(p) = "wn_generate"
     /\ IF c.onlyGenerate
        THEN Set(p, Return(c1, InstallResult(ServiceBatchPath(c.config), batchFileContent, NoSteps)))
        ELSE Set(p, At(c1, "wn_dir_exists"))
     /\ Same

WnDirExists(p) ==
  LET c == call[p]
  IN /\ Pc(p) = "wn_dir_exists"
     /\ IF ~exists(ServiceDirectory(c.config))
        THEN Set(p, At(c, "wn_mkdir"))
        ELSE Set(p, At(c, "wn_write"))
     /\ Same

WnMkdir(p) ==
  LET c == call[p]
      serviceDirectory == ServiceDirectory(c.config)
  IN /\ Pc(p) = "wn_mkdir"
     /\ dirs' = dirs \cup Prefixes(serviceDirectory)
     /\ Set(p, At(Logged(c, EvMkdir(serviceDirectory)), "wn_write"))
     /\ SameButDirs

WnWrite(p) ==
  LET c == call[p]
      serviceBatchPath == ServiceBatchPath(c.config)
  IN /\ Pc(p) = "wn_write"
     /\ WriteFile(serviceBatchPath, c.content)
     /\ Set(p, At(Logged(c, EvWrite(serviceBatchPath, serviceBatchPath \in DOMAIN files)), "wn_create"))
     /\ SameButFiles

WnInstalled(c) == Return(c, InstallResult(ServiceBatchPath(c.config), c.content, NoSteps))

\* a failed sc.exe create raised at once, the batch file left behind
WnCreateNoRollback(p) ==
  LET c == call[p]
  IN /\ Pc(p) = "wn_create"
     /\ \E code \in ExitCodes :
          LET c1 == Logged(c, EvSpawn(Elevated(ScCreateArgs(c.config)), code))
          IN IF code # 0
             THEN Set(p, Throw(c1, "Failed to install service."))
             ELSE Set(p, WnInstalled(c1))
     /\ Same

WnCreate(p) ==
  LET c == call[p]
  IN /\ Pc(p) = "wn_create"
     /\ \E code \in ExitCodes :
          LET c1 == Logged(c, EvSpawn(Elevated(ScCreateArgs(c.config)), code))
          IN IF code # 0
             THEN Set(p, At([c1 EXCEPT !.primary = "Failed to install service."], "wn_rollback"))
             ELSE Set(p, WnInstalled(c1))
     /\ Same

\* rollback: unlink the batch file; a failure is printed, not thrown
WnRollback(p) ==
  LET c == call[p]
      serviceBatchPath == ServiceBatchPath(c.config)
  IN /\ Pc(p) \in {"wn_rollback", "wn_un_rollback"}
     /\ \E ok \in UnlinkOutcomes(serviceBatchPath) :
          LET c1 == Logged(c, EvUnlink(serviceBatchPath, ok))
          IN IF ok
             THEN Unlink(serviceBatchPath) /\ Set(p, Throw(c1, c.primary))
             ELSE UNCHANGED files /\ Set(p, Throw(Logged(c1, EvConsole("error")), c.primary))
     /\ SameButFiles

WnUnExists(p) ==
  LET c == call[p]
  IN /\ Pc(p) = "wn_un_exists"
     /\ IF ~exists(ServiceBatchPath(c.config))
        THEN Set(p, Throw(c, "does not exist"))
        ELSE Set(p, At(c, "wn_un_delete"))
     /\ Same

WnUnDelete(p) ==
  LET c == call[p]
  IN /\ Pc(p) = "wn_un_delete"
     /\ \E code \in ExitCodes :
          LET c1 == Logged(c, EvSpawn(Elevated(ScDeleteArgs(c.config)), code))
          IN IF code # 0
             THEN Set(p, At([c1 EXCEPT !.primary = "Failed to uninstall service."], "wn_un_rollback"))
             ELSE Set(p, At(c1, "wn_un_unlink"))
     /\ Same

WnUnUnlink(p) ==
  LET c == call[p]
      serviceBatchPath == ServiceBatchPath(c.config)
  IN /\ Pc(p) = "wn_un_unlink"
     /\ \E ok \in UnlinkOutcomes(serviceBatchPath) :
          LET c1 == Logged(c, EvUnlink(serviceBatchPath, ok))
          IN IF ok
             THEN Unlink(serviceBatchPath) /\ Set(p, Return(c1, UninstallResult(<<c.config.name>>, NoSteps)))
             ELSE UNCHANGED files /\ Set(p, Throw(c1, "Failed to uninstall service"))
     /\ SameButFiles

WindowsStep(p) ==
  \/ WnExists(p) \/ WnGenerate(p) \/ WnDirExists(p) \/ WnMkdir(p) \/ WnWrite(p)
  \/ WnCreate(p) \/ WnRollback(p) \/ WnUnExists(p) \/ WnUnDelete(p) \/ WnUnUnlink(p)

SystemdStep(p) ==
  \/ SdExistsUser(p) \/ SdExistsSystem(p) \/ SdLinger(p) \/ SdGenerate(p)
  \/ SdMktempdir(p) \/ SdWriteTemp(p) \/ SdMkdir(p) \/ SdWrite(p)
  \/ SdReload(p) \/ SdEnable(p) \/ SdStart(p) \/ SdRollbackUnlink(p) \/ SdRollbackReload(p)
  \/ SdUnExists(p) \/ SdUnStop(p) \/ SdUnUnlink(p) \/ SdUnReload(p)

DispatcherStep(p) ==
  \/ CallInstallService(p) \/ CallUninstallService(p) \/ CallGenerateConfig(p)
  \/ Settle(p) \/ Entry(p) \/ DetectPs(p) \/ DetectStat(p) \/ Lookup(p) \/ Generate(p)

Next ==
  \E p \in Procs :
    \/ DispatcherStep(p) \/ SystemdStep(p) \/ InitStep(p) \/ UpstartStep(p)
    \/ LaunchdStep(p) \/ WindowsStep(p)

Spec == Init /\ [][Next]_vars

\* ------------------------------------------------------------------ rendering
\* The exported generateConfig called with a forced identifier, so that every
\* renderer is reached on one host, over option values that meet the
\* templates' placeholders and the replacement patterns of String.replace.
RenderNames == {"a", "{{command}}"}
RenderCmds == { <<"run", "app.ts">>, <<"echo", "$$">>, <<"{{path}}">> }
RenderCwds == {Absent, "{{extraEnvs}}"}
RenderPaths == { OptList(FALSE, <<>>), List(<<>>), List(<<"/extra">>), List(<<"/x", "/y">>) }
RenderEnvs ==
  { OptList(FALSE, <<>>),
    List(<< <<"K", "=", "V">>, <<"K", "=", "V">> >>),
    List(<< <<"A", "=", "1", "=", "2">>, <<"K", "=", "V">> >>),
    List(<< <<"NOEQ">> >>) }
RenderOptions ==
  [system : BOOLEAN, name : RenderNames, cmd : RenderCmds, user : UserOpts, home : {Absent},
   cwd : RenderCwds, path : RenderPaths, env : RenderEnvs]

CallRender(p) ==
  /\ CanBegin(p)
  /\ \E options \in RenderOptions, force \in RegistryKeys :
       Begin(p, "generateConfig", options, TRUE, force)

RenderInit ==
  /\ Init
  /\ host = [os |-> "linux", pid1 |-> <<"systemd">>]
  /\ DOMAIN files = {}

RenderNext ==
  \E p \in Procs :
    \/ CallRender(p) \/ Entry(p) \/ Lookup(p) \/ Generate(p) \/ Settle(p)

RenderSpec == RenderInit /\ [][RenderNext]_vars

\* ------------------------------------------------------------------ concurrent callers
\* Two callers of the exported functions whose calls overlap: each call runs
\* from await to await, and between two awaits of one the other may take
\* any number of steps.  The callers share the filesystem and nothing else.
\* The host runs systemd or Windows, the backends that install by themselves.
ConcProcs == {1, 2}

ConcHosts ==
  { [os |-> "linux", pid1 |-> <<"systemd">>], [os |-> "windows", pid1 |-> <<"wininit">>] }

\* the service files an earlier install may have left, for either name
ConcInstalled(h) ==
  LET a == prepareConfig(InstallOptions(FALSE, "a", "u"))
      b == prepareConfig(InstallOptions(FALSE, "b", "u"))
  IN IF h.os = "windows"
     THEN {ServiceBatchPath(a), ServiceBatchPath(b)}
     ELSE {SystemdPathUser(a), SystemdPathUser(b), SystemdPathSystem(a)}

ConcInit ==
  /\ host \in ConcHosts
  /\ \E pre \in SUBSET ConcInstalled(host) :
       files = [q \in pre |-> <<"(left by an earlier install)">>]
  /\ dirs = {}
  /\ tmpSeq = 0
  /\ ncalls = 0
  /\ alive = TRUE
  /\ call = [p \in ConcProcs |-> IdleCall(p)]

\* caller p invokes installService or uninstallService, whatever the other
\* caller is doing; caller 1 always for name "a"
ConcCall(p) ==
  /\ alive
  /\ ncalls < MaxCalls
  /\ Pc(p) = "idle"
  /\ \E system \in BOOLEAN, name \in (IF p = 1 THEN {"a"} ELSE Names) :
       \/ Begin(p, "install", InstallOptions(system, name, "u"), FALSE, NoForce)
       \/ Begin(p, "uninstall", UninstallOptions(system, name), FALSE, NoForce)

ConcNext ==
  \E p \in ConcProcs :
    \/ ConcCall(p) \/ Entry(p) \/ DetectPs(p) \/ Lookup(p)
    \/ SystemdStep(p) \/ WindowsStep(p)

ConcSpec == ConcInit /\ [][ConcNext]_vars

\* ------------------------------------------------------------------ command line
\* The CLI: main(inputArgs) runs without an await from the parse to the call
\* of installService / uninstallService, and again from the settling of
\* that call to exit().
Count(args, flag) == Len(args[flag])
Get(args, flag) == IF args[flag] = <<>> THEN Undefined ELSE args[flag][1]
HasRest(args) == args.rest # <<>>
BaseArgument(args) == IF Len(args.loose) > 0 THEN args.loose[1] ELSE Undefined
ValidBaseArguments == {"install", "uninstall", "generate"}

\* the check of the environment entries left out
checkArgumentsEnvUnchecked(args) ==
  LET baseArgument == BaseArgument(args)
  IN IF baseArgument # Undefined /\ baseArgument \notin ValidBaseArguments
     THEN "Invalid base argument"
     ELSE IF baseArgument # "uninstall" /\ Count(args, "cmd") = 0 /\ ~HasRest(args)
     THEN "Specify a command using '--cmd'"
     ELSE IF Count(args, "name") = 0
     THEN "Service name must be specified."
     ELSE ""

\* checkArguments: the message of the error it throws, "" when it returns
checkArguments(args) ==
  LET baseArgument == BaseArgument(args)
  IN IF baseArgument # Undefined /\ baseArgument \notin ValidBaseArguments
     THEN "Invalid base argument"
     ELSE IF baseArgument # "uninstall" /\ Count(args, "cmd") = 0 /\ ~HasRest(args)
     THEN "Specify a command using '--cmd'"
     ELSE IF Count(args, "env") > 0
             /\ \E i \in DOMAIN args.env : ~Includes(args.env[i], <<"=">>)
     THEN "Environment variables must be specified like '--env NAME=VALUE'."
     ELSE IF Count(args, "name") = 0
     THEN "Service name must be specified."
     ELSE ""

\* the command lines tried, as the parser reports them
CliArgs ==
  { Args(TRUE, loose, help, name, cmd, rest, env, system) :
      loose \in { <<>>, <<"install">>, <<"generate">>, <<"uninstall">>, <<"remove">> },
      help \in { <<>>, <<TRUE>> },
      name \in { <<>>, <<"a">> },
      cmd \in { <<>>, <<CallCmd>> },
      rest \in { <<>>, <<"serve">> },
      env \in { <<>>, << <<"K", "=", "V">> >>, << <<"NOEQ">> >>,
                 << <<"K", "=", "V">>, <<"NOEQ">> >> },
      system \in BOOLEAN }
\* a command line the parser throws on
ParseFailure == Args(FALSE, <<>>, <<>>, <<>>, <<>>, <<>>, <<>>, FALSE)

\* { system, name, cmd, cwd, user, home, path, env } as main builds it
CliInstallOptions(args) ==
  [system |-> args.system, name |-> Get(args, "name"),
   cmd |-> IF Count(args, "cmd") > 0 THEN Get(args, "cmd") ELSE args.rest,
   user |-> Undefined, home |-> Undefined, cwd |-> Undefined,
   path |-> List(<<>>), env |-> List(args.env)]

\* console output on the stream, then exit(code): the process ends
MainExit(c, stream, code) ==
  [Logged(Logged(c, EvConsole(stream)), EvExit(code)) EXCEPT
     !.pc = "exited", !.result = [kind |-> "exit", code |-> code]]

\* the call main makes, up to the first await inside the core
MainCall(c, op, options, onlyGenerate) ==
  [NewCall("entry", op, options, onlyGenerate, NoForce) EXCEPT
     !.args = c.args, !.before = c.before, !.prev = c.prev]

\* main, from its start to exit() or to the await of the core's promise
Main(p) ==
  /\ Pc(p) = "idle"
  /\ alive
  /\ ncalls = 0
  /\ ncalls' = 1
  /\ \E args \in CliArgs \cup {ParseFailure} :
       LET c == [call[p] EXCEPT !.args = args, !.before = [files |-> files, dirs |-> dirs]]
           baseArgument == BaseArgument(args)
       IN IF ~args.ok
          THEN Set(p, MainExit(c, "error", 1)) /\ alive' = FALSE
          ELSE IF Count(args, "help") > 0 \/ Falsy(baseArgument)
          THEN Set(p, MainExit(c, "log", 0)) /\ alive' = FALSE
          ELSE IF checkArguments(args) # ""
          THEN Set(p, MainExit(c, "error", 1)) /\ alive' = FALSE
          ELSE IF baseArgument \in {"install", "generate"}
          THEN /\ Set(p, MainCall(c, "install", CliInstallOptions(args), baseArgument = "generate"))
               /\ alive' = alive
          ELSE IF baseArgument = "uninstall"
          THEN /\ Set(p, MainCall(c, "uninstall", UninstallOptions(args.system, Get(args, "name")), FALSE))
               /\ alive' = alive
          ELSE Set(p, MainExit(c, "error", 1)) /\ alive' = FALSE
  /\ UNCHANGED <<host, files, dirs, tmpSeq>>

\* main after the await: print the outcome and exit(0), or the error and exit(1)
MainSettled(p) ==
  LET c == call[p]
  IN /\ Pc(p) = "done"
     /\ alive
     /\ IF c.result.kind = "throw"
        THEN Set(p, MainExit(c, "error", 1))
        ELSE Set(p, MainExit(c, "log", 0))
     /\ alive' = FALSE
     /\ UNCHANGED <<host, files, dirs, tmpSeq, ncalls>>

CliInit ==
  /\ Init
  /\ host = [os |-> "linux", pid1 |-> <<"systemd">>]
  /\ DOMAIN files \subseteq {SystemdPathUser(prepareConfig(InstallOptions(FALSE, "a", "u")))}

CliNext ==
  \E p \in Procs :
    \/ Main(p) \/ MainSettled(p) \/ Entry(p) \/ DetectPs(p) \/ Lookup(p) \/ SystemdStep(p)

CliSpec == CliInit /\ [][CliNext]_vars

\* ------------------------------------------------------------------ observations
\* What a call has done is read off its record: the effects it logged, the
\* filesystem it found when it began, and the value or error it settled with.
ManagerOf(c) == IF c.initSystem \in RegistryKeys THEN Registry(c.initSystem) ELSE "none"
Over(c) == c.pc = "done"
InCall(c) == c.pc \notin {"idle"}
\* the call reached the manager's method of that name
Entered(c, method) ==
  \E i \in DOMAIN c.log : c.log[i].k = "method" /\ c.log[i].method = method
\* the effects of the manager's method: everything logged after the dispatch
BackendLog(c) ==
  LET at == CHOOSE i \in DOMAIN c.log : c.log[i].k = "method"
  IN SubSeq(c.log, at + 1, Len(c.log))
Effects(log, kinds) == { i \in DOMAIN log : log[i].k \in kinds }
\* the path install resolves for the requested mode
Target(c) ==
  CASE ManagerOf(c) = "SystemdService" -> SystemdPath(c.config)
    [] ManagerOf(c) = "InitService" -> InitScriptPath(c.config)
    [] ManagerOf(c) = "UpstartService" -> UpstartFilePath(c.config)
    [] ManagerOf(c) = "LaunchdService" -> PlistPath(c.config)
    [] ManagerOf(c) = "WindowsService" -> ServiceBatchPath(c.config)
\* both paths of a backend that has a user-mode and a system-mode path
EitherPath(c) ==
  CASE ManagerOf(c) = "SystemdService" -> {SystemdPathUser(c.config), SystemdPathSystem(c.config)}
    [] ManagerOf(c) = "LaunchdService" -> {PlistPathUser(c.config), PlistPathSystem(c.config)}
    [] OTHER -> {Target(c)}
FoundAtStart(c, paths) == paths \cap DOMAIN c.before.files # {}
FilesystemUntouched(c) == files = c.before.files /\ dirs = c.before.dirs
AlreadyExists == [kind |-> "throw", msg |-> "already exists"]
GenerateRequest(c) == c.op = "generateConfig" \/ (c.op = "install" /\ c.onlyGenerate)
PsProbe == EvSpawn(<<"ps", "-p", "1", "-o", "comm=">>, 0)

\* ------------------------------------------------------------------ C1
\* C1 (as stated): for every backend and both modes, an install (generating or
\* not) that finds a config file at the resolved target path fails with an
\* 'already exists' error, having written no file, created no directory and
\* run no external command.
C1_ExistingConfigRaisesError ==
  \A p \in Procs :
    LET c == call[p]
    IN (Over(c) /\ c.op = "install" /\ Entered(c, "install") /\ FoundAtStart(c, {Target(c)}))
       => /\ c.result = AlreadyExists
          /\ Effects(BackendLog(c), {"writeFile", "mkdir", "mktempdir", "spawn"}) = {}

\* C1, the diverging case: UpstartService.install found the file, printed
\* the message and ended the process instead of raising.
C1_UpstartExits ==
  \E p \in Procs :
    LET c == call[p]
    IN /\ Over(c) /\ c.op = "install" /\ Entered(c, "install")
       /\ ManagerOf(c) = "UpstartService"
       /\ FoundAtStart(c, {Target(c)})
       /\ c.result = [kind |-> "exit", code |-> 1]
       /\ ~alive

\* ------------------------------------------------------------------ C2
\* C2: with calls run one at a time, no write ever lands on a path where a
\* file already was, and the systemd and launchd installs refuse when a file
\* for the name is at the user-mode or at the system-mode path, whichever
\* mode was asked for.
C2_NeverOverwrites ==
  \A p \in Procs :
    LET c == call[p]
    IN /\ \A i \in DOMAIN c.log : c.log[i].k = "writeFile" => ~c.log[i].existed
       /\ (/\ Over(c) /\ c.op = "install" /\ Entered(c, "install")
           /\ ManagerOf(c) \in {"SystemdService", "LaunchdService"}
           /\ FoundAtStart(c, EitherPath(c)))
          => c.result = AlreadyExists

\* C2 happens: the second call of a sequence, a systemd or launchd install,
\* found no file at the path of the mode it was asked for, found one at the
\* other mode's path, and was refused.
C2_RefusedForOtherMode ==
  \E p \in Procs :
    LET c == call[p]
    IN /\ Over(c) /\ c.op = "install" /\ Entered(c, "install")
       /\ ManagerOf(c) \in {"SystemdService", "LaunchdService"}
       /\ ~FoundAtStart(c, {Target(c)})
       /\ FoundAtStart(c, EitherPath(c))
       /\ c.result = AlreadyExists
       /\ ncalls = 2

\* ------------------------------------------------------------------ C3
\* C3 (as stated): a generate request, forced or not, leaves the filesystem
\* unchanged and runs no external command between call and return.
C3_GenerateRunsNothing ==
  \A p \in Procs :
    LET c == call[p]
    IN (InCall(c) /\ GenerateRequest(c))
       => /\ FilesystemUntouched(c)
          /\ Effects(c.log, {"spawn", "writeFile", "mkdir", "mktempdir", "unlink"}) = {}

\* C3 (amended): a generate request leaves the filesystem unchanged; no
\* backend runs a command for it; the one command it can run is the
\* detector's ps probe of PID 1, once, and only when no backend is forced
\* and the host is neither macOS nor Windows.
C3_GenerateOnlyProbes ==
  \A p \in Procs :
    LET c == call[p]
        spawns == Effects(c.log, {"spawn"})
    IN (InCall(c) /\ GenerateRequest(c))
       => /\ FilesystemUntouched(c)
          /\ Effects(c.log, {"writeFile", "mkdir", "mktempdir", "unlink"}) = {}
          /\ \A i \in spawns : c.log[i] = PsProbe
          /\ Cardinality(spawns) <= 1
          /\ spawns # {} => (Falsy(c.force) /\ host.os = "linux")
          /\ Entered(c, c.op) => Effects(BackendLog(c), {"spawn"}) = {}

\* C3 happens: an unforced generate on a systemd host returned the rendered
\* user-mode unit after the probe, with the filesystem as it found it.
C3_GeneratedAfterProbe ==
  \E p \in Procs :
    LET c == call[p]
    IN /\ Over(c) /\ c.op = "install" /\ c.onlyGenerate /\ Falsy(c.force)
       /\ ManagerOf(c) = "SystemdService" /\ ~c.config.system
       /\ c.result.kind = "return"
       /\ c.log[1] = PsProbe
       /\ FilesystemUntouched(c)

\* ------------------------------------------------------------------ C4
NeedsElevated(c) ==
  \/ ManagerOf(c) \in {"InitService", "UpstartService"}
  \/ ManagerOf(c) \in {"SystemdService", "LaunchdService"} /\ c.config.system
WrittenBy(c) == { c.log[i].path : i \in Effects(c.log, {"writeFile"}) }
IsTemp(path) == path[1] = "/tmp"

\* C4 (as stated): on systemd, sysvinit/docker-init, upstart and launchd, an
\* install that is not generate-only and whose target needs elevated access
\* never writes the target path and runs no command itself; it writes the
\* rendered content to a temporary file only and returns a non-null list of
\* manual steps.
C4_PrivilegedInstallOnlyStages ==
  \A p \in Procs :
    LET c == call[p]
    IN (/\ InCall(c) /\ c.op = "install" /\ ~c.onlyGenerate /\ Entered(c, "install")
        /\ ManagerOf(c) # "WindowsService" /\ NeedsElevated(c))
       => /\ \A path \in WrittenBy(c) : path # Target(c) /\ IsTemp(path)
          /\ Effects(BackendLog(c), {"spawn"}) = {}
          /\ (Over(c) /\ ~FoundAtStart(c, EitherPath(c)))
             => /\ c.result.kind = "return"
                /\ c.result.value.manualSteps.t = "list"
                /\ c.result.value.manualSteps.steps # <<>>
                /\ \E tmp \in WrittenBy(c) :
                     WrittenBy(c) = {tmp} /\ files[tmp] = c.result.value.serviceFileContent

\* C4, the diverging case: a system-mode launchd install created the
\* directory and wrote /Library/LaunchDaemons/<name>.plist itself.
C4_LaunchdWroteSystemPath ==
  \E p \in Procs :
    LET c == call[p]
    IN /\ Over(c) /\ c.op = "install" /\ ~c.onlyGenerate
       /\ ManagerOf(c) = "LaunchdService" /\ c.config.system
       /\ PlistPathSystem(c.config) \in WrittenBy(c)
       /\ PlistPathSystem(c.config) \in DOMAIN files
       /\ Effects(c.log, {"mkdir"}) # {}
       /\ c.result.kind = "return"

\* ------------------------------------------------------------------ C5
\* the commands of the steps that carry one, in list order
StepCommands(steps) ==
  LET withCommand == SelectSeq(steps, LAMBDA st : "command" \in DOMAIN st)
  IN [i \in DOMAIN withCommand |-> withCommand[i].command]

\* C5: the manual steps a privileged install returns are in execution order
\* with their exact commands.  systemd in system mode: cp <temp> <target>,
\* systemctl daemon-reload, systemctl enable <name>, systemctl start <name>;
\* sysvinit: cp <temp> <target>, chmod +x <target>, update-rc.d <name>
\* defaults, service <name> start.  The one file a command reads, the copy's
\* source, was written by this call and holds the rendered content.
C5_ManualStepsInOrder ==
  \A p \in Procs :
    LET c == call[p]
        name == c.config.name
    IN (/\ Over(c) /\ c.op = "install" /\ ~c.onlyGenerate /\ c.result.kind = "return"
        /\ \/ ManagerOf(c) = "SystemdService" /\ c.config.system
           \/ ManagerOf(c) = "InitService")
       => /\ c.result.value.manualSteps.t = "list"
          /\ \E tmp \in WrittenBy(c) :
               /\ files[tmp] = c.result.value.serviceFileContent
               /\ StepCommands(c.result.value.manualSteps.steps) =
                    IF ManagerOf(c) = "SystemdService"
                    THEN << "sudo cp " \o PathText(tmp) \o " /etc/systemd/system/" \o name \o ".service",
                            "sudo systemctl daemon-reload",
                            "sudo systemctl enable " \o name,
                            "sudo systemctl start " \o name >>
                    ELSE << "sudo cp " \o PathText(tmp) \o " /etc/init.d/" \o name,
                            "sudo chmod +x /etc/init.d/" \o name,
                            "sudo update-rc.d " \o name \o " defaults",
                            "sudo service " \o name \o " start" >>

\* C5 happens: a sysvinit install returned its steps, a note without a
\* command followed by the four commands.
C5_InitStepsReturned ==
  \E p \in Procs :
    LET c == call[p]
    IN /\ Over(c) /\ c.op = "install" /\ ManagerOf(c) = "InitService"
       /\ c.result.kind = "return"
       /\ c.result.value.manualSteps.t = "list"
       /\ Len(c.result.value.manualSteps.steps) = 5
       /\ Len(StepCommands(c.result.value.manualSteps.steps)) = 4

\* ------------------------------------------------------------------ C6
\* C6 (as stated): an install result that carries manual steps has as
\* servicePath the temporary file holding the rendered content, the source
\* of the first step's copy; a fully automated result has the final path of
\* the written file.
C6_ServicePathIsTheWrittenFile ==
  \A p \in Procs :
    LET c == call[p]
        r == c.result.value
    IN (Over(c) /\ c.op = "install" /\ ~c.onlyGenerate /\ c.result.kind = "return")
       => IF r.manualSteps.t = "null"
          THEN r.servicePath = Target(c) /\ r.servicePath \in WrittenBy(c)
          ELSE /\ r.servicePath \in WrittenBy(c)
               /\ r.servicePath \in DOMAIN files
               /\ files[r.servicePath] = r.serviceFileContent
               /\ r.manualSteps.t = "list"
               /\ StepCommands(r.manualSteps.steps)[1] = CmdCopy(r.servicePath, Target(c))

\* C6, the diverging case: the system-mode systemd result names the
\* temporary directory, while the copy's source is the file cfg inside it.
C6_SystemdReturnsDirectory ==
  \E p \in Procs :
    LET c == call[p]
        r == c.result.value
    IN /\ Over(c) /\ c.op = "install" /\ c.result.kind = "return"
       /\ ManagerOf(c) = "SystemdService" /\ c.config.system /\ ~c.onlyGenerate
       /\ r.servicePath \in dirs
       /\ r.servicePath \notin DOMAIN files
       /\ StepCommands(r.manualSteps.steps)[1] =
            CmdCopy(join(r.servicePath, "cfg"), SystemdPathSystem(c.config))

\* ------------------------------------------------------------------ C7
UserModeSystemdInstall(c) ==
  /\ c.op = "install" /\ ~c.onlyGenerate /\ Entered(c, "install")
  /\ ManagerOf(c) = "SystemdService" /\ ~c.config.system
SpawnsOf(c, argv) == { i \in DOMAIN c.log : c.log[i].k = "spawn" /\ c.log[i].argv = argv }
Reloads(c) == SpawnsOf(c, <<"systemctl", "--user", "daemon-reload">>)
Enables(c) == SpawnsOf(c, <<"systemctl", "--user", "enable", c.config.name>>)
Starts(c) == SpawnsOf(c, <<"systemctl", "--user", "start", c.config.name>>)
TargetWrites(c) == { i \in DOMAIN c.log : c.log[i].k = "writeFile" /\ c.log[i].path = Target(c) }
Unlinks(c) == { i \in DOMAIN c.log : c.log[i].k = "unlink" /\ c.log[i].path = Target(c) }
\* write, then reload, then enable, then start, each only after the one
\* before it exited 0
StepsGated(c) ==
  /\ Cardinality(TargetWrites(c)) <= 1
  /\ \A r \in Reloads(c) : \E w \in TargetWrites(c) : w < r
  /\ \A e \in Enables(c) : \E r \in Reloads(c) : r < e /\ c.log[r].code = 0
  /\ \A s \in Starts(c) : \E e \in Enables(c) : e < s /\ c.log[e].code = 0
  /\ \A i \in Enables(c) \cup Starts(c) :
       \A j \in Reloads(c) \cup Enables(c) \cup Starts(c) : j < i => c.log[j].code = 0

\* C7 (as stated): in a user-mode systemd install the steps come in the
\* order write, daemon-reload, enable, start; each command is invoked at
\* most once in the call; a step is invoked only if every earlier one
\* exited 0.
C7_EachCommandOnce ==
  \A p \in Procs :
    LET c == call[p]
    IN UserModeSystemdInstall(c)
       => /\ StepsGated(c)
          /\ Cardinality(Reloads(c)) <= 1
          /\ Cardinality(Enables(c)) <= 1
          /\ Cardinality(Starts(c)) <= 1

\* C7 (amended): the order and the gating hold, and enable and start are
\* invoked at most once; daemon-reload is invoked once as a step and at most
\* once more by rollback, after a step has failed and the file was unlinked,
\* as the last command of the call.
C7_StepsGatedReloadTwice ==
  \A p \in Procs :
    LET c == call[p]
        steps == Reloads(c) \cup Enables(c) \cup Starts(c)
    IN UserModeSystemdInstall(c)
       => /\ StepsGated(c)
          /\ Cardinality(Enables(c)) <= 1
          /\ Cardinality(Starts(c)) <= 1
          /\ Cardinality(Reloads(c)) <= 2
          /\ \A r1, r2 \in Reloads(c) :
               r1 < r2 => /\ \E j \in steps : j < r2 /\ c.log[j].code # 0
                          /\ \E u \in Unlinks(c) : r1 < u /\ u < r2 /\ c.log[u].ok
                          /\ \A j \in steps : j <= r2

\* C7 happens: a user-mode install ran write, daemon-reload, enable and
\* start, each once and each exiting 0, and returned.
C7_AllStepsRan ==
  \E p \in Procs :
    LET c == call[p]
    IN /\ UserModeSystemdInstall(c) /\ Over(c) /\ c.result.kind = "return"
       /\ \E w \in TargetWrites(c), r \in Reloads(c), e \in Enables(c), s \in Starts(c) :
            w < r /\ r < e /\ e < s /\ c.log[s].code = 0

\* ------------------------------------------------------------------ C8
UnprivilegedInstall(c) ==
  /\ c.op = "install" /\ ~c.onlyGenerate /\ Entered(c, "install")
  /\ \/ ManagerOf(c) = "SystemdService" /\ ~c.config.system
     \/ ManagerOf(c) = "WindowsService"
\* the commands run after the file was written that exited non-zero
FailedAfterWrite(c) ==
  { i \in DOMAIN c.log : /\ c.log[i].k = "spawn" /\ c.log[i].code # 0
                         /\ \E w \in TargetWrites(c) : w < i }

\* C8 (as stated): in an unprivileged install (user-mode systemd, Windows),
\* once a command run after the write has exited non-zero the call ends with
\* an error, never a success result, and the file it wrote is no longer at
\* the target path.
C8_FailedStepRemovesFile ==
  \A p \in Procs :
    LET c == call[p]
    IN (UnprivilegedInstall(c) /\ Over(c) /\ FailedAfterWrite(c) # {})
       => /\ c.result.kind = "throw"
          /\ Target(c) \notin DOMAIN files

\* C8 (amended): such a call ends with an error, never a success result,
\* after rollback has tried to unlink the file it wrote; the file is gone
\* from the target path exactly when that unlink succeeded, and is left
\* there with the rendered content when the unlink failed.
C8_FailedStepRollsBack ==
  \A p \in Procs :
    LET c == call[p]
    IN (UnprivilegedInstall(c) /\ Over(c) /\ FailedAfterWrite(c) # {})
       => /\ c.result.kind = "throw"
          /\ \E u \in Unlinks(c) :
               /\ Unlinks(c) = {u}
               /\ \E i \in FailedAfterWrite(c) : i < u
               /\ IF c.log[u].ok
                  THEN Target(c) \notin DOMAIN files
                  ELSE Target(c) \in DOMAIN files /\ files[Target(c)] = c.content

\* C8 happens: enable exited non-zero in a user-mode systemd install, the
\* rollback removed the unit file, and the call raised the enable failure.
C8_RolledBackAfterEnable ==
  \E p \in Procs :
    LET c == call[p]
    IN /\ UnprivilegedInstall(c) /\ Over(c) /\ ManagerOf(c) = "SystemdService"
       /\ \E e \in Enables(c) : c.log[e].code # 0
       /\ \E u \in Unlinks(c) : c.log[u].ok
       /\ Target(c) \notin DOMAIN files
       /\ c.result = [kind |-> "throw", msg |-> "Failed to enable service, rolled back any changes."]

\* ------------------------------------------------------------------ C9
\* rollback ran and failed: its unlink failed, or the reload it ran after
\* the unlink exited non-zero
RollbackItselfFailed(c) ==
  \E u \in Unlinks(c) :
    /\ \E i \in FailedAfterWrite(c) : i < u
    /\ \/ ~c.log[u].ok
       \/ \E r \in Reloads(c) : u < r /\ c.log[r].code # 0
PrimaryFailures ==
  { "Failed to reload daemon, rolled back any changes.",
    "Failed to enable service, rolled back any changes.",
    "Failed to start service, rolled back any changes.",
    "Failed to install service." }

\* C9 (as stated): when rollback itself fails, the error install raises is
\* still the failure of the step that triggered the rollback; the rollback's
\* failure never replaces it.
C9_PrimaryFailurePropagates ==
  \A p \in Procs :
    LET c == call[p]
    IN (UnprivilegedInstall(c) /\ Over(c) /\ RollbackItselfFailed(c))
       => /\ c.result.kind = "throw"
          /\ c.result.msg \in PrimaryFailures
          /\ c.result.msg = c.primary

\* C9, the diverging case: daemon-reload failed in a user-mode systemd
\* install, rollback's unlink failed, and install raised rollback's error.
C9_RollbackErrorRaised ==
  \E p \in Procs :
    LET c == call[p]
    IN /\ UnprivilegedInstall(c) /\ Over(c) /\ ManagerOf(c) = "SystemdService"
       /\ c.primary = "Failed to reload daemon, rolled back any changes."
       /\ \E u \in Unlinks(c) : ~c.log[u].ok
       /\ c.result = [kind |-> "throw", msg |-> "Failed to rollback changes"]

\* ------------------------------------------------------------------ C10
Lingers(c) ==
  { i \in DOMAIN c.log : c.log[i].k = "spawn" /\ c.log[i].argv[1] = "loginctl" }
SystemdInstall(c) ==
  c.op = "install" /\ Entered(c, "install") /\ ManagerOf(c) = "SystemdService"

\* C10: a user-mode systemd install that is not generate-only runs
\* loginctl enable-linger <user>, and that command has exited 0, before any
\* directory is created or file written; with no username, or with a
\* non-zero exit of that command, install raises an error and the
\* filesystem is as it was.  Generate mode and system mode never run it.
C10_LingerBeforeAnyWrite ==
  \A p \in Procs :
    LET c == call[p]
        user == c.config.user
    IN SystemdInstall(c)
       => IF ~c.config.system /\ ~c.onlyGenerate
          THEN /\ \A i \in Effects(c.log, {"mkdir", "mktempdir", "writeFile"}) :
                    \E j \in Lingers(c) :
                      j < i /\ c.log[j] = EvSpawn(<<"loginctl", "enable-linger", user>>, 0)
               /\ Cardinality(Lingers(c)) <= 1
               /\ (Over(c) /\ (Falsy(user) \/ \E j \in Lingers(c) : c.log[j].code # 0))
                  => /\ c.result.kind = "throw"
                     /\ FoundAtStart(c, EitherPath(c)) \/ c.result.msg =
                          IF Falsy(user) THEN "Username not found"
                          ELSE "Failed to enable linger for user mode."
                     /\ FilesystemUntouched(c)
          ELSE Lingers(c) = {}

\* C10 happens: linger was enabled with exit 0, after which the user-mode
\* install created the unit directory and wrote the unit.
C10_LingerThenWrite ==
  \E p \in Procs :
    LET c == call[p]
    IN /\ SystemdInstall(c) /\ ~c.config.system /\ ~c.onlyGenerate
       /\ \E j \in Lingers(c), m \in Effects(c.log, {"mkdir"}), w \in TargetWrites(c) :
            j < m /\ m < w /\ c.log[j].code = 0

\* ------------------------------------------------------------------ C11
\* C11: uninstalling an existing system-mode systemd service returns manual
\* steps whose commands are, in this order, systemctl stop <name>, rm of the
\* system-mode unit path, systemctl daemon-reload; the call itself unlinks
\* nothing and runs no command.
C11_SystemUninstallIsManual ==
  \A p \in Procs :
    LET c == call[p]
    IN (/\ c.op = "uninstall" /\ Entered(c, "uninstall")
        /\ ManagerOf(c) = "SystemdService" /\ c.config.system
        /\ FoundAtStart(c, {SystemdPathSystem(c.config)}))
       => /\ Effects(BackendLog(c), {"unlink", "spawn", "writeFile"}) = {}
          /\ FilesystemUntouched(c)
          /\ Over(c) =>
               /\ c.result.kind = "return"
               /\ c.result.value.manualSteps.t = "list"
               /\ StepCommands(c.result.value.manualSteps.steps) =
                    << "sudo systemctl stop " \o c.config.name,
                       "sudo rm /etc/systemd/system/" \o c.config.name \o ".service",
                       "sudo systemctl daemon-reload" >>

\* C11 happens: the system-mode unit was there, uninstall returned three
\* steps, and the unit is still there.
C11_SystemUninstallReturned ==
  \E p \in Procs :
    LET c == call[p]
    IN /\ Over(c) /\ c.op = "uninstall" /\ Entered(c, "uninstall")
       /\ ManagerOf(c) = "SystemdService" /\ c.config.system
       /\ c.result.kind = "return"
       /\ Len(c.result.value.manualSteps.steps) = 3
       /\ SystemdPathSystem(c.config) \in DOMAIN files

\* ------------------------------------------------------------------ C12
Uninstalling(c) ==
  c.op = "uninstall" /\ Entered(c, "uninstall") /\ FoundAtStart(c, {Target(c)})
Returned(c) == Over(c) /\ c.result.kind \in {"return", "return undefined"}

\* C12 (as stated): uninstall splits as install does.  Where the service
\* file needs elevated access (system mode of systemd and launchd, always
\* for sysvinit and upstart) it deletes nothing itself and returns manual
\* steps; where the file is user-writable it deletes the file and runs the
\* reload itself.
C12_UninstallPrivilegeSplit ==
  \A p \in Procs :
    LET c == call[p]
    IN Uninstalling(c)
       => IF NeedsElevated(c)
          THEN /\ Effects(BackendLog(c), {"unlink", "spawn"}) = {}
               /\ FilesystemUntouched(c)
               /\ Returned(c) => /\ c.result.kind = "return"
                                 /\ c.result.value.manualSteps.t # "null"
          ELSE Returned(c) => /\ Target(c) \notin DOMAIN files
                              /\ \E u \in Unlinks(c) : c.log[u].ok
                              /\ Effects(BackendLog(c), {"spawn"}) # {}

\* C12, the diverging case: a system-mode launchd uninstall unlinked
\* /Library/LaunchDaemons/<name>.plist itself.
C12_LaunchdUnlinkedSystemPath ==
  \E p \in Procs :
    LET c == call[p]
    IN /\ Uninstalling(c) /\ Over(c)
       /\ ManagerOf(c) = "LaunchdService" /\ c.config.system
       /\ \E u \in Unlinks(c) : c.log[u].ok /\ c.log[u].path = PlistPathSystem(c.config)
       /\ PlistPathSystem(c.config) \notin DOMAIN files
       /\ c.result.kind = "return"

\* ------------------------------------------------------------------ C13
AutomatedPath(c) ==
  \/ ManagerOf(c) \in {"SystemdService", "LaunchdService"} /\ ~c.config.system
  \/ ManagerOf(c) = "WindowsService"
\* an uninstall of what the call before it, an install, wrote
RoundTrip(c) ==
  /\ Uninstalling(c) /\ AutomatedPath(c)
  /\ c.prev.ok /\ c.prev.path = Target(c)
Cooperative(c) ==
  /\ \A i \in Effects(BackendLog(c), {"spawn"}) : BackendLog(c)[i].code = 0
  /\ \A i \in Effects(BackendLog(c), {"unlink"}) : BackendLog(c)[i].ok

\* C13: on the automated paths (user-mode systemd, user-mode launchd,
\* Windows), an uninstall that follows a successful install of the same
\* name, home and mode, with every command exiting 0 and the unlink not
\* refused, returns having removed exactly the file install wrote: one
\* unlink, of that path, and the files are again those there were before
\* the install, so that the existence checks of a following install pass.
C13_UninstallRemovesWhatInstallWrote ==
  \A p \in Procs :
    LET c == call[p]
    IN (RoundTrip(c) /\ Over(c) /\ Cooperative(c))
       => /\ c.result.kind = "return"
          /\ Effects(c.log, {"unlink"}) = Unlinks(c)
          /\ Cardinality(Unlinks(c)) = 1
          /\ DOMAIN files = DOMAIN c.before.files \ {c.prev.path}
          /\ files = c.prev.files
          /\ EitherPath(c) \cap DOMAIN files = {}

\* C13 happens: a user-mode systemd install wrote the unit and the uninstall
\* after it returned with the unit gone.
C13_InstalledThenUninstalled ==
  \E p \in Procs :
    LET c == call[p]
    IN /\ RoundTrip(c) /\ Over(c) /\ Cooperative(c)
       /\ ManagerOf(c) = "SystemdService"
       /\ c.prev.path \in DOMAIN c.before.files
       /\ c.prev.path \notin DOMAIN files
       /\ c.result.kind = "return"

\* ------------------------------------------------------------------ C14
\* the call wrote, or unlinked, the final target path
TargetTouched(c) ==
  \/ TargetWrites(c) # {}
  \/ \E u \in Unlinks(c) : c.log[u].ok
Changing(c) ==
  /\ Entered(c, c.op)
  /\ c.op = "uninstall" \/ (c.op = "install" /\ ~c.onlyGenerate)

\* C14 (as stated): every successful install or uninstall either made the
\* whole change itself and returns manualSteps = null, or left the final
\* target untouched and returns manual steps; none both changes the target
\* and returns manual steps.
C14_AutomatedOrManual ==
  \A p \in Procs :
    LET c == call[p]
    IN (Changing(c) /\ Returned(c))
       => /\ c.result.kind = "return"
          /\ (c.result.value.manualSteps.t = "null") <=> TargetTouched(c)

\* C14, the diverging case: a launchd install wrote the plist at its final
\* path and returned manual steps as well.
C14_LaunchdWroteAndReturnedSteps ==
  \E p \in Procs :
    LET c == call[p]
    IN /\ Changing(c) /\ Returned(c) /\ c.op = "install"
       /\ ManagerOf(c) = "LaunchdService"
       /\ TargetWrites(c) # {}
       /\ c.result.kind = "return"
       /\ c.result.value.manualSteps.t = "string"

\* ------------------------------------------------------------------ C15
\* C15 (as stated): in every result an install or uninstall returns,
\* manualSteps is null or a non-empty list; never an empty list.
C15_StepsNullOrNonEmpty ==
  \A p \in Procs :
    LET c == call[p]
    IN (Over(c) /\ c.op \in {"install", "uninstall"} /\ c.result.kind = "return")
       => \/ c.result.value.manualSteps.t = "null"
          \/ /\ c.result.value.manualSteps.t = "list"
             /\ c.result.value.manualSteps.steps # <<>>

\* C15, the diverging case: a user-mode systemd uninstall stopped the
\* service, removed the unit, reloaded, and returned manualSteps = [].
C15_EmptyListReturned ==
  \E p \in Procs :
    LET c == call[p]
    IN /\ Over(c) /\ c.op = "uninstall" /\ ManagerOf(c) = "SystemdService"
       /\ ~c.config.system
       /\ c.result.kind = "return"
       /\ c.result.value.manualSteps = [t |-> "list", steps |-> <<>>]

\* ------------------------------------------------------------------ C16
Methods(c) == Effects(c.log, {"method"})
\* the identifier is resolved and the registry has been asked for it
LookedUp(c) ==
  /\ c.pc \notin {"idle", "entry", "detect_ps", "detect_stat", "lookup"}
  /\ c.initSystem # Undefined
Unsupported(c) == c.result = [kind |-> "throw", msg |-> "Unsupported init system"]

\* C16: for install, uninstall and generateConfig alike, an identifier that
\* is no key of the registry ends the operation with 'Unsupported init
\* system', no backend method called and the filesystem as it was; a
\* registered identifier has exactly the matching method of the manager
\* registered under it called, once, and what generateConfig returns is
\* what that manager's generateConfig renders.
C16_LookupDelegates ==
  \A p \in Procs :
    LET c == call[p]
    IN /\ Cardinality(Methods(c)) <= 1
       /\ LookedUp(c) =>
            IF c.initSystem \notin RegistryKeys
            THEN Unsupported(c) /\ Methods(c) = {} /\ FilesystemUntouched(c)
            ELSE /\ \E i \in Methods(c) : c.log[i] = EvMethod(Registry(c.initSystem), c.op)
                 /\ (Over(c) /\ c.op = "generateConfig")
                    => c.result = [kind |-> "return",
                                   value |-> generateConfig(Registry(c.initSystem), c.config)]

\* C16 happens: generateConfig forced to "openrc", which is registered
\* nowhere, ended with the error and no method call.
C16_UnregisteredRefused ==
  \E p \in Procs :
    LET c == call[p]
    IN /\ Over(c) /\ c.op = "generateConfig" /\ c.force = "openrc"
       /\ c.initSystem = "openrc"
       /\ Unsupported(c)
       /\ c.log = <<>>

\* ------------------------------------------------------------------ C17
Forced(c) == InCall(c) /\ ~Falsy(c.force)
ForcedInstallRefused(c) ==
  c.result = [kind |-> "throw",
              msg |-> "Manually selecting an init system is not possible while installing."]

\* C17: a forced identifier is taken for generate and uninstall only.  A
\* forced installService with onlyGenerate=false fails with nothing done:
\* no detection, no backend method, no effect.  A forced generate or
\* uninstall never runs the detector; the forced identifier is the one
\* looked up.
C17_ForceOnlyForGenerateAndUninstall ==
  \A p \in Procs :
    LET c == call[p]
    IN Forced(c)
       => IF c.op = "install" /\ ~c.onlyGenerate
          THEN /\ c.log = <<>>
               /\ c.initSystem = Undefined
               /\ FilesystemUntouched(c)
               /\ c.pc \in {"entry", "done"}
               /\ Over(c) => ForcedInstallRefused(c)
          ELSE /\ \A i \in Effects(c.log, {"spawn"}) : c.log[i] # PsProbe
               /\ c.pc \notin {"detect_ps", "detect_stat"}
               /\ c.pc # "entry" => c.initSystem = c.force
               /\ \A i \in Methods(c) : c.log[i].manager = Registry(c.force)

\* C17 happens: an install forced to systemd was refused with nothing done.
C17_ForcedInstallRefused ==
  \E p \in Procs :
    LET c == call[p]
    IN /\ Over(c) /\ c.op = "install" /\ ~c.onlyGenerate /\ c.force = "systemd"
       /\ ForcedInstallRefused(c)
       /\ c.log = <<>>

\* ------------------------------------------------------------------ C18
Unforced(c) == InCall(c) /\ Falsy(c.force)
Detected(c) == c.pc \notin {"idle", "entry", "detect_ps", "detect_stat"}

\* C18 (as stated): where PID 1's command name contains "docker-init" (host
\* neither macOS nor Windows) the detector answers "dockerinit", which is no
\* registry key, so an unforced install, uninstall or generate reaches no
\* backend and fails with the unsupported-init-system error.
C18_DockerInitUnsupported ==
  \A p \in Procs :
    LET c == call[p]
    IN (Unforced(c) /\ host.os = "linux" /\ Includes(host.pid1, <<"docker-", "init">>))
       => /\ Methods(c) = {}
          /\ (Detected(c) /\ c.initSystem # Undefined) => c.initSystem = "dockerinit"
          /\ Over(c) => Unsupported(c)

\* C18, the diverging case: on such a host the name also contains "init";
\* the detector answered "sysvinit" and InitService.install was called.
C18_DockerInitTakenForSysvinit ==
  \E p \in Procs :
    LET c == call[p]
    IN /\ Unforced(c) /\ host.os = "linux" /\ host.pid1 = <<"docker-", "init">>
       /\ c.op = "install"
       /\ c.initSystem = "sysvinit"
       /\ \E i \in Methods(c) : c.log[i] = EvMethod("InitService", "install")

\* ------------------------------------------------------------------ C19
\* C19: on a host neither macOS nor Windows whose PID 1 name contains
\* "init" and not "systemd", the detector answers "upstart" exactly when
\* /sbin/initctl is a file and /etc/init is a directory, and "sysvinit"
\* otherwise, a stat that throws included; on macOS it answers "launchd"
\* and on Windows "windows", without running ps.
C19_DetectorAnswers ==
  \A p \in Procs :
    LET c == call[p]
    IN (Unforced(c) /\ c.pc = "lookup")
       => CASE host.os = "darwin" -> c.initSystem = "launchd" /\ c.log = <<>>
            [] host.os = "windows" -> c.initSystem = "windows" /\ c.log = <<>>
            [] OTHER ->
                 (Includes(host.pid1, <<"init">>) /\ ~Includes(host.pid1, <<"systemd">>))
                 => /\ c.stat[1] \in StatKinds
                    /\ c.initSystem = IF c.stat = <<"file", "directory">>
                                      THEN "upstart" ELSE "sysvinit"

\* C19 happens: PID 1 is init, /sbin/initctl is a file and /etc/init a
\* directory, and the detector has answered "upstart".
C19_UpstartDetected ==
  \E p \in Procs :
    LET c == call[p]
    IN /\ Unforced(c) /\ c.pc = "lookup"
       /\ host.os = "linux" /\ host.pid1 = <<"init">>
       /\ c.stat = <<"file", "directory">>
       /\ c.initSystem = "upstart"

\* ------------------------------------------------------------------ C20
NoPatternMatches(name) ==
  /\ ~Includes(name, <<"systemd">>) /\ ~Includes(name, <<"init">>)
  /\ ~Includes(name, <<"openrc">>)
OpenrcHost ==
  /\ ~Includes(host.pid1, <<"systemd">>) /\ ~Includes(host.pid1, <<"init">>)
  /\ Includes(host.pid1, <<"openrc">>)

\* C20: an unforced install, uninstall or generate on a host whose PID 1
\* name contains "openrc", or matches no pattern, ends in an
\* unsupported-init-system error, with no backend method called and the
\* filesystem as it was.
C20_NoBackendForHost ==
  \A p \in Procs :
    LET c == call[p]
    IN (Unforced(c) /\ host.os = "linux" /\ (OpenrcHost \/ NoPatternMatches(host.pid1)))
       => /\ Methods(c) = {}
          /\ FilesystemUntouched(c)
          /\ c.pc \in {"entry", "detect_ps", "lookup", "done"}
          /\ Over(c) => IF OpenrcHost
                     THEN Unsupported(c)
                     ELSE c.result = [kind |-> "throw", msg |-> "Unsupported init system."]

\* C20 happens: on an openrc host an unforced uninstall ended with the
\* error after the detector had answered "openrc".
C20_OpenrcRefused ==
  \E p \in Procs :
    LET c == call[p]
    IN /\ Unforced(c) /\ Over(c) /\ c.op = "uninstall"
       /\ host.pid1 = <<"openrc">>
       /\ c.initSystem = "openrc"
       /\ Unsupported(c)

\* ------------------------------------------------------------------ C22
\* the text a generateConfig call returned, and the manager that rendered it
Rendered(c) == Over(c) /\ c.op = "generateConfig" /\ c.result.kind = "return"
RenderedBy(c, manager) == Rendered(c) /\ ManagerOf(c) = manager

\* the template with every placeholder position filled at once
RECURSIVE Fill(_, _)
Fill(template, vals) ==
  IF template = <<>> THEN <<>>
  ELSE (IF Head(template) \in DOMAIN vals THEN vals[Head(template)] ELSE <<Head(template)>>)
       \o Fill(Tail(template), vals)

TemplateOf(manager) ==
  CASE manager = "SystemdService" -> serviceFileTemplate
    [] manager = "InitService" -> initScriptTemplate
    [] manager = "UpstartService" -> upstartFileTemplate
    [] manager = "LaunchdService" -> plistTemplate

\* the path value each renderer builds
PathValue(manager, o) ==
  CASE manager \in {"SystemdService", "InitService"} ->
         IF o.path.has /\ Len(o.path.v) > 0
         THEN joinWith(o.path.v, ":") \o <<":", RuntimeDir>> ELSE <<RuntimeDir>>
    [] manager = "UpstartService" ->
         IF o.path.has THEN <<EnvPATH, ":">> \o joinWith(o.path.v, ":") ELSE <<EnvPATH>>
    [] manager = "LaunchdService" -> OptJoin(o.path, ":") \o <<":", EnvPATH>>

EnvList(o) == IF o.env.has THEN o.env.v ELSE <<>>

\* what belongs at each placeholder position of the manager's template
OwnValues(manager, o) ==
  LET wd == IF Falsy(o.cwd) THEN Cwd ELSE o.cwd
  IN CASE manager = "SystemdService" ->
            ("{{name}}" :> <<o.name>>) @@ ("{{command}}" :> CmdText(o.cmd))
            @@ ("{{path}}" :> (<<"PATH=">> \o PathValue(manager, o)))
            @@ ("{{workingDirectory}}" :> <<wd>>)
            @@ ("{{extraServiceContent}}" :> (IF o.system THEN <<"User=", o.user>> ELSE <<>>))
            @@ ("{{wantedByTarget}}" :>
                  (IF o.system THEN <<"multi-user.target">> ELSE <<"default.target">>))
            @@ ("{{extraEnvs}}" :> concatMap(EnvList(o), <<"Environment=">>, <<"\n">>))
       [] manager = "InitService" ->
            ("{{name}}" :> <<o.name>>) @@ ("{{command}}" :> CmdText(o.cmd))
            @@ ("{{path}}" :> PathValue(manager, o))
            @@ ("{{extraEnvs}}" :> concatMap(EnvList(o), <<>>, <<"\n">>))
       [] manager = "UpstartService" ->
            ("{{name}}" :> <<o.name>>) @@ ("{{command}}" :> CmdText(o.cmd))
            @@ ("{{path}}" :> PathValue(manager, o))
            @@ ("{{extraEnvs}}" :> concatMap(EnvList(o), <<"env ">>, <<"\n">>))
       [] manager = "LaunchdService" ->
            ("{{name}}" :> <<o.name>>) @@ ("{{command}}" :> PlistArgs(o.cmd))
            @@ ("{{path}}" :> PathValue(manager, o))
            @@ ("{{workingDirectory}}" :> <<wd>>)
            @@ ("{{extraEnvs}}" :> PlistEnvs(EnvList(o)))

Templated == {"SystemdService", "InitService", "UpstartService", "LaunchdService"}

\* C22 (as stated): whatever the option values, placeholder texts among
\* them included, the rendered config is the template with each placeholder
\* position holding exactly its own value: no placeholder of the template
\* is left, and no inserted text is touched by a later substitution.
C22_EachPlaceholderItsOwnValue ==
  \A p \in Procs :
    LET c == call[p]
    IN (Rendered(c) /\ ManagerOf(c) \in Templated)
       => c.result.value = Fill(TemplateOf(ManagerOf(c)), OwnValues(ManagerOf(c), c.config))

\* C22, the diverging case: the name is the text {{command}}; the systemd
\* renderer put the command line where the name belongs, and the template's
\* own {{command}} is still in the output.
C22_CommandLandedInDescription ==
  \E p \in Procs :
    LET c == call[p]
    IN /\ RenderedBy(c, "SystemdService")
       /\ c.config.name = "{{command}}" /\ c.config.cmd = <<"run", "app.ts">>
       /\ Includes(c.result.value,
                   <<"[Unit]\nDescription=", "run", " ", "app.ts",
                     " (Deno Service)\n\n[Service]\nExecStart=/bin/sh -c \"", "{{command}}">>)

\* ------------------------------------------------------------------ C23
\* the name of an environment entry and everything after its first "="
EnvName(e) == IF IndexOf(e, "=") = 0 THEN e ELSE SubSeq(e, 1, IndexOf(e, "=") - 1)
EnvValue(e) == IF IndexOf(e, "=") = 0 THEN <<>> ELSE SubSeq(e, IndexOf(e, "=") + 1, Len(e))

RECURSIVE PlistPairs(_)
PlistPairs(envs) ==
  IF envs = <<>> THEN <<>>
  ELSE <<"      <key>">> \o EnvName(envs[1]) \o <<"</key>\n      <string>">>
       \o EnvValue(envs[1]) \o <<"</string>\n">> \o PlistPairs(Tail(envs))

\* one entry per element, in order, each with its whole text, in the
\* manager's syntax
EnvEntries(manager, envs) ==
  CASE manager = "SystemdService" -> concatMap(envs, <<"Environment=">>, <<"\n">>)
    [] manager = "InitService" -> concatMap(envs, <<>>, <<"\n">>)
    [] manager = "UpstartService" -> concatMap(envs, <<"env ">>, <<"\n">>)
    [] manager = "LaunchdService" -> PlistPairs(envs)
    [] manager = "WindowsService" -> concatMap(envs, <<"set \"">>, <<"\"\n">>)

\* the fixed text right before and right after the environment entries
BeforeEnvs(manager) ==
  CASE manager = "LaunchdService" -> "</string>\n"
    [] manager = "WindowsService" -> "\"\n"
    [] OTHER -> "\n"
AfterEnvs(manager) ==
  IF manager = "WindowsService"
  THEN "deno run -A --unstable https://deno.land/x/windows_service@1.0.11/run.ts --serviceName "
  ELSE TemplateOf(manager)[IndexOf(TemplateOf(manager), "{{extraEnvs}}") + 1]

\* C23 (as stated): every renderer emits one entry per element of
\* options.env, in input order, duplicates kept, each entry with the name
\* and the whole value after the first "=" as given; nothing is dropped or
\* cut short.
C23_EnvEntriesVerbatim ==
  \A p \in Procs :
    LET c == call[p]
        manager == ManagerOf(c)
    IN Rendered(c)
       => Includes(c.result.value,
                   <<BeforeEnvs(manager)>> \o EnvEntries(manager, EnvList(c.config))
                   \o <<AfterEnvs(manager)>>)

\* C23, the diverging case: the launchd renderer, given the entry A=1=2,
\* emitted the value 1.
C23_LaunchdCutValue ==
  \E p \in Procs :
    LET c == call[p]
    IN /\ RenderedBy(c, "LaunchdService")
       /\ c.config.env.has /\ c.config.env.v[1] = <<"A", "=", "1", "=", "2">>
       /\ Includes(c.result.value,
                   <<"</string>\n", "      <key>", "A", "</key>\n      <string>", "1", "</string>\n",
                     "      <key>", "K">>)

\* ------------------------------------------------------------------ C24
PathEntries(o) == IF o.path.has THEN o.path.v ELSE <<>>
\* the caller's entries in their order, then the runtime's directory
PathThenRuntime(manager, o) ==
  joinWith(Append(PathEntries(o), RuntimeDir), IF manager = "WindowsService" THEN ";" ELSE ":")

\* the fixed text right before and right after the PATH value
BeforePath(manager) ==
  CASE manager = "WindowsService" -> <<"set \"PATH=">>
    [] manager = "SystemdService" ->
         <<TemplateOf(manager)[IndexOf(TemplateOf(manager), "{{path}}") - 1], "PATH=">>
    [] OTHER -> <<TemplateOf(manager)[IndexOf(TemplateOf(manager), "{{path}}") - 1]>>
AfterPath(manager) ==
  IF manager = "WindowsService" THEN "\"\n"
  ELSE TemplateOf(manager)[IndexOf(TemplateOf(manager), "{{path}}") + 1]

\* C24 (as stated): in all five renderers the service's PATH is the
\* caller's path entries in their order, joined by the platform's
\* separator, with the runtime's own directory as the last element, and the
\* runtime's directory alone when no entry is given.
C24_PathEntriesThenRuntimeDir ==
  \A p \in Procs :
    LET c == call[p]
        manager == ManagerOf(c)
    IN Rendered(c)
       => Includes(c.result.value,
                   BeforePath(manager) \o PathThenRuntime(manager, c.config)
                   \o <<AfterPath(manager)>>)

\* C24, the diverging case: the launchd renderer, given no path, wrote the
\* element "undefined" followed by the ambient PATH.
C24_LaunchdUndefinedElement ==
  \E p \in Procs :
    LET c == call[p]
    IN /\ RenderedBy(c, "LaunchdService")
       /\ ~c.config.path.has
       /\ Includes(c.result.value,
                   BeforePath("LaunchdService") \o <<"undefined", ":", EnvPATH, AfterPath("LaunchdService")>>)

\* ------------------------------------------------------------------ C25
\* the unit's opening lines, down to the end of the ExecStart line
UnitHead(name, command) ==
  <<"[Unit]\nDescription=", name, " (Deno Service)\n\n[Service]\nExecStart=/bin/sh -c \"">>
  \o command \o <<"\"\nRestart=always\nRestartSec=30\nEnvironment=">>

\* C25 (as stated): the systemd renderer's output has Description=<name>
\* (Deno Service) and ExecStart=/bin/sh -c "<cmd>" with the whole command;
\* in user mode it ends with WantedBy=default.target and has no User= line,
\* in system mode it has the line User=<user> and ends with
\* WantedBy=multi-user.target.
C25_SystemdModeInline ==
  \A p \in Procs :
    LET c == call[p]
        o == c.config
        v == c.result.value
    IN RenderedBy(c, "SystemdService")
       => /\ Includes(v, UnitHead(o.name, CmdText(o.cmd)))
          /\ IF o.system
             THEN Includes(v, <<"\n", "User=", o.user, "\n\n[Install]\nWantedBy=",
                               "multi-user.target", "\n">>)
             ELSE /\ Includes(v, <<"\n", "\n\n[Install]\nWantedBy=", "default.target", "\n">>)
                  /\ ~Includes(v, <<"User=">>)

\* C25, the diverging case: the command is `echo $$`; the ExecStart line of
\* the rendered unit runs `echo $`.
C25_ExecStartLostADollar ==
  \E p \in Procs :
    LET c == call[p]
    IN /\ RenderedBy(c, "SystemdService")
       /\ c.config.name = "a" /\ c.config.cmd = <<"echo", "$$">>
       /\ Includes(c.result.value, UnitHead("a", <<"echo", " ", "$">>))

\* ------------------------------------------------------------------ C26
\* a user-mode systemd install with onlyGenerate, for a name that has no
\* unit file at either path
SystemdDryRun(c) ==
  /\ SystemdInstall(c) /\ c.onlyGenerate /\ ~c.config.system
  /\ ~FoundAtStart(c, EitherPath(c))

\* C26 (as stated): a systemd user-mode dry run on a name that is not
\* installed returns manualSteps = null and a serviceFileContent that
\* includes the user-mode service path
\* <home>/.config/systemd/user/<name>.service, and the Description and
\* ExecStart lines for the name and the command.
C26_DryRunContentNamesPath ==
  \A p \in Procs :
    LET c == call[p]
    IN (SystemdDryRun(c) /\ Over(c))
       => /\ c.result.kind = "return"
          /\ c.result.value.manualSteps = NoSteps
          /\ Includes(c.result.value.serviceFileContent, UnitHead(c.config.name, CmdText(c.config.cmd)))
          /\ Includes(c.result.value.serviceFileContent, <<PathText(SystemdPathUser(c.config))>>)

\* C26, the diverging case: the dry run returned null steps and the unit
\* text with its Description and ExecStart lines; the service path is in
\* the result's servicePath and nowhere in the content.
C26_DryRunContentWithoutPath ==
  \E p \in Procs :
    LET c == call[p]
    IN /\ SystemdDryRun(c) /\ Over(c)
       /\ c.result.kind = "return"
       /\ c.result.value.manualSteps = NoSteps
       /\ c.result.value.servicePath = SystemdPathUser(c.config)
       /\ Includes(c.result.value.serviceFileContent, UnitHead(c.config.name, CmdText(c.config.cmd)))
       /\ \A i \in DOMAIN c.result.value.serviceFileContent :
            c.result.value.serviceFileContent[i] # PathText(SystemdPathUser(c.config))

\* ------------------------------------------------------------------ C27
\* a generate or install that reached its manager and did not fail
Succeeded(c) ==
  /\ Over(c) /\ c.op \in {"install", "generateConfig"} /\ Entered(c, c.op)
  /\ c.result.kind \notin {"throw", "exit"}

\* C27 (as stated): for every backend, what generateConfig returns, the
\* serviceFileContent a generate request returns, the serviceFileContent a
\* real install returns and the content of the file that install wrote
\* (final or temporary) are the one text the backend renders for the
\* options.
C27_GenerateShowsWhatInstallWrites ==
  \A p \in Procs :
    LET c == call[p]
        rendered == generateConfig(ManagerOf(c), c.config)
    IN Succeeded(c)
       => /\ c.op = "generateConfig" => c.result.value = rendered
          /\ c.op = "install"
             => /\ c.result.kind = "return"
                /\ c.result.value.serviceFileContent = rendered
          /\ \A path \in WrittenBy(c) : path \in DOMAIN files => files[path] = rendered

\* C27, the diverging case: an upstart generate request printed the
\* rendered text and returned undefined, so no serviceFileContent came back.
C27_UpstartReturnedNoContent ==
  \E p \in Procs :
    LET c == call[p]
    IN /\ Succeeded(c) /\ c.op = "install" /\ c.onlyGenerate
       /\ ManagerOf(c) = "UpstartService"
       /\ c.result.kind = "return undefined"
       /\ c.content = UpstartGenerateConfig(c.config)
       /\ Effects(c.log, {"console"}) # {}

\* ------------------------------------------------------------------ C28
\* C28 (as stated): when the caller gives no user (the key is absent, or
\* its value is undefined or empty) the options the backend receives carry
\* the current user's name; an omitted home becomes the current user's home
\* and an omitted cwd the current working directory.  A user-mode systemd
\* install called without user does not fail for a missing username.
C28_OmittedOptionsDefault ==
  \A p \in Procs :
    LET c == call[p]
    IN (c.op \in {"install", "generateConfig"} /\ Entered(c, c.op))
       => /\ Falsy(c.options.user) => c.config.user = EnvUSER
          /\ Falsy(c.options.home) => c.config.home = EnvHOME
          /\ Falsy(c.options.cwd) => c.config.cwd = Cwd
          /\ (UserModeSystemdInstall(c) /\ Over(c) /\ Falsy(c.options.user))
             => c.result # [kind |-> "throw", msg |-> "Username not found"]

\* C28, the diverging case: a user-mode systemd install whose options have
\* no user key reached the backend with user undefined and was refused for
\* the missing username, with nothing done.
C28_RefusedForMissingUser ==
  \E p \in Procs :
    LET c == call[p]
    IN /\ UserModeSystemdInstall(c) /\ Over(c)
       /\ c.options.user = Absent
       /\ c.config.user = Undefined
       /\ c.result = [kind |-> "throw", msg |-> "Username not found"]
       /\ BackendLog(c) = <<>>

\* ------------------------------------------------------------------ C29
\* C29 (as stated): no backend method and no dispatcher function ends the
\* process or prints to the terminal; a failure is an error raised to the
\* caller and a success a returned result, for every registered backend.
C29_NeverExitsNorPrints ==
  \A p \in Procs :
    LET c == call[p]
    IN /\ alive
       /\ InCall(c)
          => /\ Effects(c.log, {"console", "exit"}) = {}
             /\ Over(c) => c.result.kind \in {"throw", "return"}

\* C29, the diverging case: an upstart uninstall of a service that does
\* not exist printed to the error stream and called exit(1); the process is
\* gone and the caller got neither an error nor a result.
C29_UpstartUninstallExited ==
  \E p \in Procs :
    LET c == call[p]
    IN /\ Over(c) /\ c.op = "uninstall" /\ ManagerOf(c) = "UpstartService"
       /\ ~FoundAtStart(c, {Target(c)})
       /\ BackendLog(c) = <<EvConsole("error"), EvExit(1)>>
       /\ c.result.kind = "exit"
       /\ ~alive

\* ------------------------------------------------------------------ C30
WindowsInstall(c) ==
  /\ c.op = "install" /\ ~c.onlyGenerate /\ Entered(c, "install")
  /\ ManagerOf(c) = "WindowsService"
Creates(c) == SpawnsOf(c, Elevated(ScCreateArgs(c.config)))
CreateFailed(c) == \E i \in Creates(c) : c.log[i].code # 0
\* the batch file written once, then sc.exe create run once, elevated, and
\* nothing else run
WroteThenCreated(c) ==
  /\ Cardinality(TargetWrites(c)) <= 1 /\ Cardinality(Creates(c)) <= 1
  /\ Effects(BackendLog(c), {"spawn"}) \subseteq { i - (Len(c.log) - Len(BackendLog(c))) : i \in Creates(c) }
  /\ \A i \in Creates(c) : \E w \in TargetWrites(c) : w < i
  /\ (Over(c) /\ c.result.kind = "return") => Creates(c) # {}
\* sc.exe create exited 0: the batch file stays at the returned servicePath
CreatedAndKept(c) ==
  (Over(c) /\ Creates(c) # {} /\ ~CreateFailed(c))
  => /\ c.result = [kind |-> "return",
                    value |-> InstallResult(Target(c), WindowsGenerateConfig(c.config), NoSteps)]
     /\ Target(c) \in DOMAIN files
     /\ files[Target(c)] = WindowsGenerateConfig(c.config)

\* C30 (as stated): a Windows install that is not generate-only writes the
\* batch file and then runs the elevated sc.exe create once; when that
\* exits non-zero the batch file is removed and an error is raised, when it
\* exits zero the batch file remains at the returned servicePath and
\* manualSteps is null.
C30_FailedCreateRemovesBatch ==
  \A p \in Procs :
    LET c == call[p]
    IN WindowsInstall(c)
       => /\ WroteThenCreated(c)
          /\ CreatedAndKept(c)
          /\ (Over(c) /\ CreateFailed(c))
             => /\ c.result = [kind |-> "throw", msg |-> "Failed to install service."]
                /\ Target(c) \notin DOMAIN files

\* C30 (amended): as stated, except that after a non-zero exit the removal
\* of the batch file is attempted once: the file is gone when that unlink
\* succeeds; when it fails the failure is printed, the file stays, and the
\* install error is raised all the same.
C30_FailedCreateRollsBack ==
  \A p \in Procs :
    LET c == call[p]
    IN WindowsInstall(c)
       => /\ WroteThenCreated(c)
          /\ CreatedAndKept(c)
          /\ \A u \in Unlinks(c) : \E i \in Creates(c) : i < u /\ c.log[i].code # 0
          /\ (Over(c) /\ CreateFailed(c))
             => /\ c.result = [kind |-> "throw", msg |-> "Failed to install service."]
                /\ Cardinality(Unlinks(c)) = 1
                /\ \A u \in Unlinks(c) :
                     IF c.log[u].ok
                     THEN Target(c) \notin DOMAIN files /\ Effects(c.log, {"console"}) = {}
                     ELSE Target(c) \in DOMAIN files /\ Effects(c.log, {"console"}) # {}

\* C30 happens: sc.exe create exited non-zero after the batch file was
\* written, the rollback removed the file and the install error was raised.
C30_RolledBackAfterCreate ==
  \E p \in Procs :
    LET c == call[p]
    IN /\ WindowsInstall(c) /\ Over(c) /\ CreateFailed(c)
       /\ TargetWrites(c) # {}
       /\ \E u \in Unlinks(c) : c.log[u].ok
       /\ Target(c) \notin DOMAIN files
       /\ c.result = [kind |-> "throw", msg |-> "Failed to install service."]

\* ------------------------------------------------------------------ C31
\* between the existence check and the write of an unprivileged install
PastCheck(c) ==
  c.pc \in {"sd_linger", "sd_generate", "sd_mkdir", "sd_write",
            "wn_generate", "wn_dir_exists", "wn_mkdir", "wn_write"}
WroteTarget(c, existed) ==
  \E i \in TargetWrites(c) : c.log[i].existed = existed

\* C31: the existence check and the write of an install are not atomic.
\* Once an unprivileged install (user-mode systemd, Windows) has passed its
\* check, no later step of it raises 'already exists', whatever another
\* call has written meanwhile, and its write puts its content at the target
\* path whether or not a file is there by then: nothing is locked and the
\* file is not created exclusively.
C31_CheckAndWriteNotAtomic ==
  [][\A p \in ConcProcs :
       LET c == call[p]
           d == call'[p]
       IN /\ (UnprivilegedInstall(c) /\ PastCheck(c)) => d.result # AlreadyExists
          /\ (UnprivilegedInstall(c) /\ c.pc \in {"sd_write", "wn_write"} /\ d # c)
             => /\ d.pc \in {"sd_reload", "wn_create"}
                /\ Target(c) \in DOMAIN files'
                /\ files'[Target(c)] = c.content]_vars

\* C31 happens: two concurrent installs of one name found no file when they
\* began, both passed the check before either wrote, one wrote the target
\* and the other wrote over it, and both returned success.
C31_BothInstalledSameTarget ==
  \E p, q \in ConcProcs :
    LET c == call[p]
        d == call[q]
    IN /\ p # q
       /\ UnprivilegedInstall(c) /\ UnprivilegedInstall(d)
       /\ Target(c) = Target(d)
       /\ ~FoundAtStart(c, EitherPath(c)) /\ ~FoundAtStart(d, EitherPath(d))
       /\ WroteTarget(c, FALSE) /\ WroteTarget(d, TRUE)
       /\ Over(c) /\ c.result.kind = "return"
       /\ Over(d) /\ d.result.kind = "return"

\* ------------------------------------------------------------------ C32
DoesNotExist == [kind |-> "throw", msg |-> "does not exist"]
\* the other caller is not calling, or calls for another name
OtherName(c, d) == d.pc = "idle" \/ d.options.name # c.options.name
\* the call's writes and successful unlinks at a path
Touches(c, path) ==
  { i \in DOMAIN c.log : /\ c.log[i].k \in {"writeFile", "unlink"}
                         /\ c.log[i].path = path
                         /\ c.log[i].k = "unlink" => c.log[i].ok }
Last(S) == CHOOSE i \in S : \A j \in S : j <= i
\* the file at the path is what the call alone made of what it found
AsLeftBy(c, path) ==
  IF Touches(c, path) = {}
  THEN /\ (path \in DOMAIN files) <=> (path \in DOMAIN c.before.files)
       /\ path \in DOMAIN files => files[path] = c.before.files[path]
  ELSE IF c.log[Last(Touches(c, path))].k = "writeFile"
  THEN path \in DOMAIN files /\ files[path] = c.content
  ELSE path \notin DOMAIN files

\* C32: a call running concurrently with a call for another name behaves as
\* if it ran alone, which is how it behaves when the two run one after the
\* other.  Its writes never land on an existing file; an install is refused
\* with 'already exists' exactly when a file for its name was there when it
\* began, an uninstall with 'does not exist' exactly when the file of the
\* requested mode was not; and at every moment the service files of its
\* name are those it found, changed by its own writes and unlinks only.
C32_OtherNameDoesNotInterfere ==
  \A p, q \in ConcProcs :
    LET c == call[p]
        d == call[q]
    IN (p # q /\ OtherName(c, d) /\ Entered(c, c.op))
       => /\ \A i \in Effects(c.log, {"writeFile"}) : ~c.log[i].existed
          /\ \A path \in EitherPath(c) : AsLeftBy(c, path)
          /\ (Over(c) /\ c.op = "install")
             => (c.result = AlreadyExists <=> FoundAtStart(c, EitherPath(c)))
          /\ (Over(c) /\ c.op = "uninstall")
             => (c.result = DoesNotExist <=> ~FoundAtStart(c, {Target(c)}))

\* C32 happens: an uninstall of "b" began after a user-mode install of "a"
\* had written its unit and returned before that install ran its last
\* command: a's unit is there, b's is gone.
C32_UninstalledDuringInstall ==
  \E p, q \in ConcProcs :
    LET c == call[p]
        d == call[q]
    IN /\ p # q /\ c.options.name # d.options.name
       /\ UserModeSystemdInstall(c) /\ c.pc = "sd_start"
       /\ Over(d) /\ d.op = "uninstall" /\ d.result.kind = "return"
       /\ Target(c) \in DOMAIN d.before.files
       /\ Target(d) \in DOMAIN c.before.files
       /\ Target(c) \in DOMAIN files /\ Target(d) \notin DOMAIN files

\* ------------------------------------------------------------------ C37
\* C37 (as stated): under two concurrent user-mode systemd installs of one
\* name, once both have finished a call that returned success has its file
\* at the servicePath it returned: the rollback of a failing call never
\* deletes a file the other call reports installed.
C37_SuccessKeepsItsFile ==
  \A p, q \in ConcProcs :
    LET c == call[p]
        d == call[q]
    IN (/\ p # q /\ Over(c) /\ Over(d)
        /\ UserModeSystemdInstall(c) /\ UserModeSystemdInstall(d)
        /\ c.config.name = d.config.name
        /\ c.result.kind = "return")
       => c.result.value.servicePath \in DOMAIN files

\* C37, the diverging case: both installs passed the check and wrote the
\* unit; one ran its three commands and returned success, the other had a
\* command exit non-zero and its rollback unlinked the unit: the path the
\* successful call returned holds no file.
C37_RollbackRemovedInstalledUnit ==
  \E p, q \in ConcProcs :
    LET c == call[p]
        d == call[q]
    IN /\ p # q /\ Over(c) /\ Over(d)
       /\ UserModeSystemdInstall(c) /\ UserModeSystemdInstall(d)
       /\ Target(c) = Target(d)
       /\ c.result.kind = "return" /\ c.result.value.manualSteps = NoSteps
       /\ c.result.value.servicePath = Target(c)
       /\ d.result.kind = "throw"
       /\ \E u \in Unlinks(d) : d.log[u].ok
       /\ Target(c) \notin DOMAIN files

\* ------------------------------------------------------------------ C33
UserModeSystemdUninstall(c) ==
  /\ c.op = "uninstall" /\ Entered(c, "uninstall")
  /\ ManagerOf(c) = "SystemdService" /\ ~c.config.system
Stops(c) == SpawnsOf(c, <<"systemctl", "--user", "stop", c.config.name>>)
FailedToUninstall == [kind |-> "throw", msg |-> "Failed to uninstall service"]

\* C33 (as stated): a user-mode systemd uninstall stops the service, deletes
\* the unit and reloads the daemon in that order, each step only if the one
\* before it succeeded: after a stop that exited non-zero the unit is not
\* deleted, and whenever the uninstall raises the error of a failed command
\* the unit is still at its path.
C33_UninstallStepsGated ==
  \A p \in Procs :
    LET c == call[p]
    IN UserModeSystemdUninstall(c)
       => /\ \A u \in Unlinks(c) : \E s \in Stops(c) : s < u /\ c.log[s].code = 0
          /\ \A r \in Reloads(c) : \E u \in Unlinks(c) : u < r /\ c.log[u].ok
          /\ (Over(c) /\ c.result = FailedToUninstall) => Target(c) \in DOMAIN files

\* C33, the diverging case: systemctl stop exited non-zero, the unit was
\* unlinked all the same, the daemon was reloaded, and the uninstall raised
\* its error with the unit gone.
C33_UnlinkedAfterFailedStop ==
  \E p \in Procs :
    LET c == call[p]
    IN /\ UserModeSystemdUninstall(c) /\ Over(c)
       /\ c.result = FailedToUninstall
       /\ \E s \in Stops(c), u \in Unlinks(c), r \in Reloads(c) :
            s < u /\ u < r /\ c.log[s].code # 0 /\ c.log[u].ok /\ c.log[r].code = 0
       /\ Target(c) \in DOMAIN c.before.files
       /\ Target(c) \notin DOMAIN files

\* ------------------------------------------------------------------ C34
WindowsUninstall(c) ==
  /\ c.op = "uninstall" /\ Entered(c, "uninstall") /\ ManagerOf(c) = "WindowsService"
Deletes(c) == SpawnsOf(c, Elevated(ScDeleteArgs(c.config)))

\* C34 (as stated): in a Windows uninstall the batch file is deleted only
\* after the elevated sc.exe delete has succeeded; when that command exits
\* non-zero an error is raised and the batch file is left in place, so the
\* uninstall can be tried again.
C34_FailedDeleteKeepsBatch ==
  \A p \in Procs :
    LET c == call[p]
    IN WindowsUninstall(c)
       => /\ \A u \in Unlinks(c) : \E s \in Deletes(c) : s < u /\ c.log[s].code = 0
          /\ (Over(c) /\ \E s \in Deletes(c) : c.log[s].code # 0)
             => /\ c.result.kind = "throw"
                /\ Target(c) \in DOMAIN files

\* C34, the diverging case: sc.exe delete exited non-zero, rollback
\* unlinked the batch file, and the error was raised with the file gone: a
\* second uninstall would find no service.
C34_BatchRemovedAfterFailedDelete ==
  \E p \in Procs :
    LET c == call[p]
    IN /\ WindowsUninstall(c) /\ Over(c)
       /\ c.result = [kind |-> "throw", msg |-> "Failed to uninstall service."]
       /\ \E s \in Deletes(c), u \in Unlinks(c) : s < u /\ c.log[s].code # 0 /\ c.log[u].ok
       /\ Cardinality(Deletes(c)) = 1
       /\ Target(c) \in DOMAIN c.before.files
       /\ Target(c) \notin DOMAIN files

\* ------------------------------------------------------------------ C35
\* C35 (as stated): on every backend, an uninstall of a name with no file
\* at the resolved path of the requested mode fails with a 'does not exist'
\* error, having deleted nothing and run no external command.
C35_MissingServiceRefused ==
  \A p \in Procs :
    LET c == call[p]
    IN (/\ Over(c) /\ c.op = "uninstall" /\ Entered(c, "uninstall")
        /\ ~FoundAtStart(c, {Target(c)}))
       => /\ c.result = DoesNotExist
          /\ Effects(BackendLog(c), {"unlink", "spawn"}) = {}

\* C35, the diverging case: UpstartService.uninstall found no job file for
\* the name, printed that the service does not exist and ended the process
\* with code 1; no error reached the caller.
C35_UpstartExitedOnMissingJob ==
  \E p \in Procs :
    LET c == call[p]
    IN /\ Over(c) /\ c.op = "uninstall" /\ Entered(c, "uninstall")
       /\ ManagerOf(c) = "UpstartService"
       /\ UpstartFilePath(c.config) \notin DOMAIN c.before.files
       /\ c.result # DoesNotExist
       /\ c.result.kind = "exit"
       /\ Effects(BackendLog(c), {"unlink", "spawn"}) = {}
       /\ c.log[Len(c.log)] = EvExit(1)
       /\ ~alive

\* ------------------------------------------------------------------ C36
\* each index of the set is a command that ran once and exited 0
OnceAndZero(c, S) == Cardinality(S) = 1 /\ \A i \in S : c.log[i].code = 0

\* C36: with no other call on the name, an install that is not
\* generate-only and returns manualSteps = null (user-mode systemd, Windows)
\* has left a file at the servicePath it returns whose content is the
\* serviceFileContent it returns, and every command the install needs ran
\* exactly once and exited 0: loginctl enable-linger, daemon-reload, enable
\* and start for systemd, the elevated sc.exe create for Windows.
C36_AutomatedSuccessIsComplete ==
  \A p \in Procs :
    LET c == call[p]
        r == c.result.value
    IN (/\ Over(c) /\ c.op = "install" /\ ~c.onlyGenerate /\ Entered(c, "install")
        /\ c.result.kind = "return" /\ r.manualSteps = NoSteps)
       => /\ ManagerOf(c) \in {"SystemdService", "WindowsService"}
          /\ r.servicePath \in DOMAIN files
          /\ files[r.servicePath] = r.serviceFileContent
          /\ \A i \in Effects(c.log, {"spawn"}) : c.log[i].code = 0
          /\ IF ManagerOf(c) = "SystemdService"
             THEN /\ ~c.config.system
                  /\ OnceAndZero(c, Lingers(c)) /\ OnceAndZero(c, Reloads(c))
                  /\ OnceAndZero(c, Enables(c)) /\ OnceAndZero(c, Starts(c))
             ELSE OnceAndZero(c, Creates(c))

\* C36 happens: a user-mode systemd install returned manualSteps = null
\* with its unit at the returned path, after loginctl and three systemctl
\* commands.
C36_UnitInstalledByFourCommands ==
  \E p \in Procs :
    LET c == call[p]
    IN /\ Over(c) /\ UserModeSystemdInstall(c)
       /\ c.result.kind = "return" /\ c.result.value.manualSteps = NoSteps
       /\ files[c.result.value.servicePath] = SystemdGenerateConfig(c.config)
       /\ Cardinality(Effects(BackendLog(c), {"spawn"})) = 4
       /\ Lingers(c) # {}

\* ------------------------------------------------------------------ C38
\* C38 (as stated): for every backend of the registry, an install or
\* uninstall that completes without an error returns a result record, never
\* undefined: servicePath, serviceFileContent and manualSteps for install,
\* servicePath and manualSteps for uninstall.
C38_ResultRecordReturned ==
  \A p \in Procs :
    LET c == call[p]
    IN (/\ Over(c) /\ c.op \in {"install", "uninstall"} /\ Entered(c, c.op)
        /\ c.result.kind \notin {"throw", "exit"})
       => /\ c.result.kind = "return"
          /\ DOMAIN c.result.value =
               IF c.op = "install"
               THEN {"servicePath", "serviceFileContent", "manualSteps"}
               ELSE {"servicePath", "manualSteps"}

\* C38, the diverging case: UpstartService.uninstall removed the job file,
\* printed the outcome and the command to stop the service, and its promise
\* resolved with undefined.
C38_UpstartUninstallReturnedUndefined ==
  \E p \in Procs :
    LET c == call[p]
    IN /\ Over(c) /\ c.op = "uninstall" /\ ManagerOf(c) = "UpstartService"
       /\ c.result = [kind |-> "return undefined"]
       /\ \E u \in Unlinks(c) : c.log[u].ok
       /\ UpstartFilePath(c.config) \notin DOMAIN files
       /\ alive

\* ------------------------------------------------------------------ C39
\* C39 (as stated), in the form a finite run refutes: a call that takes no
\* further step has settled with a value or with an error; no command of it
\* ran more often than once as a step and once more inside rollback; and
\* rollback, the one place a file written by an install is unlinked, ran at
\* most once.
C39_SettlesWithResultOrError ==
  \A p \in Procs :
    LET c == call[p]
        spawns == Effects(c.log, {"spawn"})
    IN /\ Over(c) => c.result.kind \in {"return", "return undefined", "throw"}
       /\ \A i \in spawns :
            Cardinality({ j \in spawns : c.log[j].argv = c.log[i].argv }) <= 2
       /\ c.op = "install" => Cardinality(Effects(c.log, {"unlink"})) <= 1

\* C39, the diverging case: an Upstart call printed its message and called
\* exit(1); the process is gone, the promise of the call settled with
\* neither a value nor an error, and the caller can make no further call.
C39_EndedWithoutSettling ==
  \E p \in Procs :
    LET c == call[p]
    IN /\ Over(c) /\ Entered(c, c.op)
       /\ c.result.kind \notin {"return", "return undefined", "throw"}
       /\ c.log[Len(c.log)].k = "exit"
       /\ ~alive
       /\ ncalls < MaxCalls
       /\ ~ENABLED Next

\* ------------------------------------------------------------------ C40
\* the command line asks for help or names no base argument
AsksUsage(args) == Count(args, "help") > 0 \/ args.loose = <<>>
\* the input the core may be handed
ValidInput(args) ==
  /\ args.ok
  /\ args.loose # <<>> /\ args.loose[1] \in {"install", "generate", "uninstall"}
  /\ args.name # <<>>
  /\ args.loose[1] # "uninstall" => (args.cmd # <<>> \/ args.rest # <<>>)
  /\ \A i \in DOMAIN args.env : \E j \in DOMAIN args.env[i] : args.env[i][j] = "="
CoreCalled(c) == c.op # "none"
Exited(c, stream, code) ==
  /\ c.pc = "exited" /\ c.log = <<EvConsole(stream), EvExit(code)>>
  /\ c.result = [kind |-> "exit", code |-> code]
  /\ ~alive /\ FilesystemUntouched(c)

\* C40: main hands the core valid input only.  installService or
\* uninstallService is called exactly when the command line parses, does
\* not ask for help, has install, generate or uninstall as base argument,
\* gives a name, gives a command unless uninstalling, and has '=' in every
\* --env entry; install and generate call installService (generate with
\* onlyGenerate set), uninstall calls uninstallService.  A line with --help
\* or without base argument prints the usage and exits with code 0 before
\* any validation; every other line is reported on stderr and exits with
\* code 1; neither calls the core nor touches the filesystem.
C40_OnlyValidInputReachesCore ==
  \A p \in Procs :
    LET c == call[p]
        a == c.args
    IN c.pc # "idle"
       => /\ CoreCalled(c) <=> (ValidInput(a) /\ ~AsksUsage(a))
          /\ CoreCalled(c)
             => /\ c.op = (IF a.loose[1] = "uninstall" THEN "uninstall" ELSE "install")
                /\ c.onlyGenerate = (a.loose[1] = "generate")
                /\ c.options.name = a.name[1]
          /\ ~CoreCalled(c)
             => IF a.ok /\ AsksUsage(a) THEN Exited(c, "log", 0) ELSE Exited(c, "error", 1)

\* C40 happens: `install --name a --cmd ... --env NOEQ` was reported and
\* ended with code 1, the core not called.
C40_BadEnvRejected ==
  \E p \in Procs :
    LET c == call[p]
        a == c.args
    IN /\ a.loose = <<"install">> /\ a.help = <<>> /\ a.name = <<"a">> /\ a.cmd # <<>>
       /\ a.env = << <<"NOEQ">> >>
       /\ ~CoreCalled(c)
       /\ Exited(c, "error", 1)


============================================================================
